---- MODULE Spec2Model ----
(***************************************************************************)
(* Session lifecycle of the PwC login automation service (src/index.js,    *)
(* the variant of lines 736-1782): the in-memory session table, the        *)
(* snapshot directory, the latest-session pointer, the ticket queue, the   *)
(* scheduler and the HTTP handlers that act on them.                       *)
(*                                                                         *)
(* The browser engine and the remote login page are the environment: what  *)
(* the page shows, and whether a launch, a navigation, a disk write or a   *)
(* browser.close() throws, are inputs drawn with \E.  A handler is one     *)
(* action; the queued jobs and the scheduler callback are split where they *)
(* await the inner HTTP call.                                              *)
(*                                                                         *)
(* Time is counted in units of 15 minutes.  A session id produced by       *)
(* uuidv4() is drawn from a counter that is never reset, so an id is never *)
(* reused; the id of a start-login that registers nothing is seen by       *)
(* nobody and is not counted.  A browser is known by who holds it: an      *)
(* entry of the session table, or nobody (it is then only counted).        *)
(* The selector helpers (tryFill, tryClick, waitForAnySelector) are        *)
(* modelled on their own, over every selector list and page.               *)
(***************************************************************************)
EXTENDS Naturals, FiniteSets, Sequences, TLC

\* ---------------------------------------------------------------- bounds
MaxSessions == 2      \* sessions registered over the whole run
MaxBrowsers == 2      \* browsers open at one time
MaxTickets == 2       \* tickets queueJob hands out over the whole run
MaxSelectors == 3     \* selectors in one list handed to a resolver
MaxCalls == 2        \* complete-login requests in progress at the same time
MaxFrames == 2       \* frames of the login page (the main frame and one more)
MaxTimers == 2        \* intervals startScheduler sets over the whole run

\* ------------------------------------------------------ program constants
SESSION_TTL == 1      \* 15 * 60 * 1000 ms, in units of 15 minutes
OwnPathTries == 2     \* entries of sessionPathsToTry that name the file in ensureTmpDir()
MaxAttempts == 3      \* export hand-off: attempts before giving up

Null == 0             \* null / undefined for ids (ids start at 1)

\* The clock runs until a session registered at time 0 is past its expiry.
MaxTime == SESSION_TTL + 1

SessionIds == 1..MaxSessions
TicketIds == 1..MaxTickets

VARIABLES
  now,              \* Date.now()
  credsOk,          \* PWC_EMAIL && PWC_PASSWORD are set in the environment
  sessions,         \* const sessions = new Map(): id -> [browser, expiry], the
                    \* browser of an entry being "open" or "closed"
  latestSessionId,  \* let latestSessionId = null
  files,            \* ids whose `${id}.json` snapshot is in the tmp directory
  orphans,          \* browsers launched and not closed that no entry holds
  nextSession,      \* next id uuidv4() returns for a session
  tickets,          \* const tickets = new Map(): id -> [status, result, error]
  jobs,             \* units of work queued by queueJob and not yet settled
  nextTicket,       \* next id uuidv4() returns for a ticket
  scheduleTimer,    \* let scheduleTimer = null (0) or the id of the interval
  timers,           \* intervals set by startScheduler and not cleared
  nextTimer,        \* next id setInterval returns
  sched,            \* the scheduler callback awaiting its inner call
  handoff,          \* export hand-offs scheduled: session id -> [state, attempts, last]
  selectors,        \* the selector list a resolver is called with
  page,             \* the page it is called on: selector -> state of its element
  out,              \* what the resolver called last has returned and done
  send,             \* the send-my-code search of a start-login: where it is
  otpPage,          \* the page findOtpInputInAllFrames looks at, frame by frame
  otpOut,           \* what findOtpInputInAllFrames has returned
  verdict,          \* loginSuccess and successIndicators of the last success check
  calls,            \* complete-login invocations taken one await at a time
  holds,            \* which browser each table entry holds, for those calls
  running,          \* the browsers running, <<session id, browser>>, for those calls
  resp              \* the response sent by the step just taken

store == <<sessions, latestSessionId, files, orphans, nextSession>>
queue == <<tickets, jobs, nextTicket>>
timing == <<scheduleTimer, timers, nextTimer, sched>>
resolver == <<selectors, page, out, send, otpPage, otpOut, verdict>>
inflight == <<calls, holds, running>>
vars == <<now, credsOk, sessions, latestSessionId, files, orphans,
          nextSession, tickets, jobs, nextTicket, scheduleTimer, timers, nextTimer,
          sched, handoff, selectors, page, out, send, otpPage, otpOut, verdict,
          calls, holds, running, resp>>

\* ------------------------------------------------------------ Map helpers
Put(m, k, v) == [x \in DOMAIN m \cup {k} |-> IF x = k THEN v ELSE m[x]]
Remove(m, ks) == [x \in DOMAIN m \ ks |-> m[x]]
EmptyMap == [x \in {} |-> 0]

\* ------------------------------------------------------- chromium.launch()
\* The sessions whose browser is open, the browsers open in all, and whether
\* n more can be launched.
LiveSessions == {s \in DOMAIN sessions : sessions[s].browser = "open"}
OpenBrowsers == orphans + Cardinality(LiveSessions)
CanLaunch(n) == OpenBrowsers + n <= MaxBrowsers

\* ------------------------------------------------------------- responses
\* The JSON body a start-login / complete-login call returns, as the queued
\* wrappers and the scheduler read it.
Body(r) == [ok |-> r.ok, error |-> r.error, message |-> r.message,
            session_id |-> r.session_id]
NoBody == [ok |-> FALSE, error |-> "", message |-> "", session_id |-> Null]

\* res.status(code).json({...}).  The fields after ticket_id are not part of
\* the body; they record the request and the way the handler took: stage (how
\* far it got), browser (what its `browser` variable holds when it answers:
\* nothing, an open or a closed browser), leftOpen (the browsers it launched
\* or used that are open when it answers), found (the sessions in the table
\* when it began), and for complete-login requested (the effective session
\* id), lookup (the branch that got the session), hadFile (the requested id
\* had a snapshot file) and thrown (the rebuilding attempts that threw).
NoResp == [op |-> "", code |-> 0, ok |-> FALSE, error |-> "", message |-> "",
           step |-> "", session_id |-> Null, deleted |-> 0, errors |-> 0,
           status |-> "", result |-> NoBody, ticket_id |-> Null,
           stage |-> "", browser |-> "", leftOpen |-> 0, found |-> 0,
           requested |-> Null, lookup |-> "", hadFile |-> FALSE, thrown |-> 0]

\* No response is on its way to a client: the next request comes in after the
\* response to the last one went out.
Idle == resp = NoResp

Fail(op, code, error, step, stage) ==
  [NoResp EXCEPT !.op = op, !.code = code, !.error = error, !.step = step,
                 !.stage = stage]

\* ------------------------------------------------------------ POST /start-login
\* What the login page and the engine do during one start-login.
StartFields == {"launchOk", "gotoOk", "emailFilled", "passFilled", "submitted",
                "choiceShown", "emailOptionOk", "frameClicked", "jsClicked",
                "codeInputShown", "otpFound", "stillOnMfa", "storageOk", "writeOk",
                "closeThrows", "advanceClicked"}

\* The try block of lines 1020-1092: the channel-choice screen is awaited, the
\* e-mail option and a send-code button are clicked, the code input is awaited.
MfaSelected(e) ==
  /\ e.choiceShown
  /\ e.emailOptionOk
  /\ (e.frameClicked \/ e.jsClicked)
  /\ e.codeInputShown

\* The credential check made only once the browser is launched.
MissingCredentialsLaunched ==
  [how |-> "return", launched |-> TRUE, code |-> 400,
   error |-> "Missing credentials", step |-> "start-login", stage |-> "credentials"]

\* Lines 960-966: the credential check is the first statement of the handler.
MissingCredentials ==
  [how |-> "return", launched |-> FALSE, code |-> 400,
   error |-> "Missing credentials", step |-> "start-login", stage |-> "credentials"]

\* The first step of the handler that does not pass, and how the handler
\* leaves there: "return" (respond at once), "close" (await browser.close(),
\* then respond), "catch" (the outer catch block) or "register".
StartLoginPath(e) ==
  IF ~credsOk THEN MissingCredentials
  ELSE IF ~e.launchOk THEN
    [how |-> "catch", launched |-> FALSE, code |-> 500,
     error |-> "exception", step |-> "start-login", stage |-> "launch"]
  ELSE IF ~e.gotoOk THEN
    [how |-> "catch", launched |-> TRUE, code |-> 500,
     error |-> "exception", step |-> "start-login", stage |-> "goto"]
  ELSE IF ~e.emailFilled THEN
    [how |-> "close", launched |-> TRUE, code |-> 500,
     error |-> "Email field not found", step |-> "login:email", stage |-> "email"]
  ELSE IF ~e.passFilled THEN
    [how |-> "close", launched |-> TRUE, code |-> 500,
     error |-> "Password field not found", step |-> "login:password", stage |-> "password"]
  ELSE IF ~e.submitted THEN
    [how |-> "close", launched |-> TRUE, code |-> 500,
     error |-> "Submit button not found", step |-> "login:submit", stage |-> "submit"]
  ELSE IF ~MfaSelected(e) THEN
    [how |-> "close", launched |-> TRUE, code |-> 500,
     error |-> "MFA selection failed", step |-> "mfa:select-email", stage |-> "mfa"]
  ELSE IF ~e.otpFound /\ e.stillOnMfa THEN
    [how |-> "close", launched |-> TRUE, code |-> 500,
     error |-> "Still on MFA page - Send my code not clicked", step |-> "mfa:send-code",
     stage |-> "otp"]
  ELSE IF ~e.otpFound THEN
    [how |-> "close", launched |-> TRUE, code |-> 500,
     error |-> "OTP field not found", step |-> "otp:input", stage |-> "otp"]
  ELSE IF ~e.storageOk THEN
    [how |-> "catch", launched |-> TRUE, code |-> 500,
     error |-> "exception", step |-> "start-login", stage |-> "storage"]
  ELSE IF ~e.writeOk THEN
    [how |-> "return", launched |-> TRUE, code |-> 500,
     error |-> "Failed to save session", step |-> "start-login", stage |-> "save"]
  ELSE
    [how |-> "register", launched |-> TRUE, code |-> 200,
     error |-> "", step |-> "", stage |-> "registered"]

\* One scenario per outcome: whatever comes after the first step that does
\* not pass is never looked at, and is fixed to TRUE.
StartOrder == <<"launchOk", "gotoOk", "emailFilled", "passFilled", "submitted",
                "choiceShown", "emailOptionOk", "frameClicked", "jsClicked",
                "codeInputShown", "otpFound", "stillOnMfa", "storageOk", "writeOk">>

StartScenario(n, closeThrows) ==
  [f \in StartFields |->
     IF f = "closeThrows" THEN closeThrows
     ELSE \A i \in 1..Len(StartOrder) : StartOrder[i] = f => i # n]

StartEnvs ==
  {StartScenario(n, c) : n \in 0..Len(StartOrder), c \in BOOLEAN}
  \cup {[StartScenario(0, c) EXCEPT !.frameClicked = FALSE, !.jsClicked = j]
          : c \in BOOLEAN, j \in BOOLEAN}
  \cup {[StartScenario(0, c) EXCEPT !.otpFound = FALSE, !.stillOnMfa = FALSE]
          : c \in BOOLEAN}
  \cup {[StartScenario(0, c) EXCEPT !.advanceClicked = FALSE] : c \in BOOLEAN}

\* browser.close() at the end of a path: whether the browser is still open
\* and whether the handler ended in the outer catch.
ClosedBy(how, closeThrows) ==
  CASE how = "close" -> ~closeThrows
    [] how = "catch" -> ~closeThrows
    [] OTHER -> FALSE

\* The entry start-login registers, with its expiry left at the time of the
\* call.
NewSessionNoTtl(browser) == [browser |-> browser, expiry |-> now]

\* The entry start-login registers (lines 1137-1142).
NewSession(browser) == [browser |-> browser, expiry |-> now + SESSION_TTL]

\* StartLoginHandler with the entry registered and the pointer set before the
\* snapshot is written, so that a failed save leaves both behind.
StartLoginHandlerRegistersFirst(e) ==
  LET p == StartLoginPath(e)
      sessionId == nextSession
      thrown == p.how = "close" /\ e.closeThrows
      closed == ClosedBy(p.how, e.closeThrows)
      browser == IF ~p.launched THEN "" ELSE IF closed THEN "closed" ELSE "open"
  IN
  /\ p.how = "register" => nextSession <= MaxSessions
  /\ p.launched => CanLaunch(1)
  /\ nextSession' = IF p.how = "register" THEN nextSession + 1 ELSE nextSession
  /\ IF p.how = "register"
     THEN /\ files' = files \cup {sessionId}
          /\ sessions' = Put(sessions, sessionId, NewSession(browser))
          /\ latestSessionId' = sessionId
          /\ UNCHANGED orphans
          /\ resp' = [NoResp EXCEPT !.op = "start-login", !.code = 200, !.ok = TRUE,
                        !.message = "Awaiting OTP", !.session_id = sessionId,
                        !.stage = p.stage, !.browser = browser, !.leftOpen = 1,
                        !.found = Cardinality(DOMAIN sessions)]
     ELSE /\ UNCHANGED files
          /\ sessions' = IF p.stage = "save"
                         THEN Put(sessions, sessionId, NewSession(browser))
                         ELSE sessions
          /\ latestSessionId' = IF p.stage = "save" THEN sessionId
                                ELSE latestSessionId
          /\ orphans' = IF browser = "open" THEN orphans + 1 ELSE orphans
          /\ resp' = [Fail("start-login", p.code,
                           IF thrown THEN "exception" ELSE p.error,
                           IF thrown THEN "start-login" ELSE p.step,
                           p.stage)
                        EXCEPT !.browser = browser,
                               !.leftOpen = IF browser = "open" THEN 1 ELSE 0,
                               !.found = Cardinality(DOMAIN sessions)]

\* The handler of POST /start-login (lines 958-1173).
StartLoginHandler(e) ==
  LET p == StartLoginPath(e)
      sessionId == nextSession
      thrown == p.how = "close" /\ e.closeThrows
      closed == ClosedBy(p.how, e.closeThrows)
      browser == IF ~p.launched THEN "" ELSE IF closed THEN "closed" ELSE "open"
  IN
  /\ p.how = "register" => nextSession <= MaxSessions
  /\ p.launched => CanLaunch(1)
  /\ nextSession' = IF p.how = "register" THEN nextSession + 1 ELSE nextSession
  /\ IF p.how = "register"
     THEN /\ files' = files \cup {sessionId}
          /\ sessions' = Put(sessions, sessionId, NewSession(browser))
          /\ latestSessionId' = sessionId
          /\ UNCHANGED orphans
          /\ resp' = [NoResp EXCEPT !.op = "start-login", !.code = 200, !.ok = TRUE,
                        !.message = "Awaiting OTP", !.session_id = sessionId,
                        !.stage = p.stage, !.browser = browser, !.leftOpen = 1,
                        !.found = Cardinality(DOMAIN sessions)]
     ELSE /\ UNCHANGED <<files, sessions, latestSessionId>>
          /\ orphans' = IF browser = "open" THEN orphans + 1 ELSE orphans
          /\ resp' = [Fail("start-login", p.code,
                           IF thrown THEN "exception" ELSE p.error,
                           IF thrown THEN "start-login" ELSE p.step,
                           p.stage)
                        EXCEPT !.browser = browser,
                               !.leftOpen = IF browser = "open" THEN 1 ELSE 0,
                               !.found = Cardinality(DOMAIN sessions)]

StartLogin(e) ==
  /\ StartLoginHandler(e)
  /\ UNCHANGED <<now, credsOk, resolver, inflight, queue, timing, handoff>>

\* --------------------------------------------------------- POST /complete-login
\* What the engine does while a session is rebuilt from a snapshot file
\* (lines 1207-1302 and 1326-1387).  ownFails: attempts on the session's own
\* file that throw (launch, newContext or goto) before one goes through;
\* pick: the file of the directory listing that loads in the fallback loop
\* (Null: none does); fbFails: the files read before it, whose attempt threw;
\* leaks: the attempts that throw do so after chromium.launch() returned.
NoLookup == [ownFails |-> 0, pick |-> Null, fbFails |-> 0, leaks |-> FALSE]

OwnTries(id) == IF id \in files THEN OwnPathTries ELSE 0

RecoverEnvs(id) ==
  {[ownFails |-> n, pick |-> Null, fbFails |-> 0, leaks |-> l] :
     n \in 0..(OwnTries(id) - 1), l \in BOOLEAN}
  \cup
  {[ownFails |-> OwnTries(id), pick |-> f, fbFails |-> k, leaks |-> l] :
     f \in files, k \in 0..(Cardinality(files) - 1), l \in BOOLEAN}
  \cup
  {[ownFails |-> OwnTries(id), pick |-> Null, fbFails |-> Cardinality(files),
    leaks |-> l] : l \in BOOLEAN}

RestoreEnvs(id) ==
  {[ownFails |-> n, pick |-> Null, fbFails |-> 0, leaks |-> l] :
     n \in 0..OwnTries(id), l \in BOOLEAN}

\* One scenario per outcome: how many attempts throw shows only in the
\* browsers they leave behind.
Canonical(id, l) ==
  /\ (l.ownFails = 0 /\ l.fbFails = 0) => ~l.leaks
  /\ ~l.leaks => l.ownFails \in {0, OwnTries(id)}
  /\ (~l.leaks /\ l.pick # Null) => l.fbFails = 0

\* Browsers the lookup launches.
Launches(id, l) ==
  LET thrown == l.ownFails + l.fbFails
      rebuilt == \/ l.ownFails < OwnTries(id) /\ id \notin DOMAIN sessions
                 \/ l.ownFails < OwnTries(id) /\ id \in DOMAIN sessions
                      /\ sessions[id].expiry >= now
                      /\ sessions[id].browser = "closed"
                 \/ l.pick # Null
  IN (IF l.leaks THEN thrown ELSE 0) + (IF rebuilt THEN 1 ELSE 0)

\* The scenarios of one lookup; every launch of it can be made.
LookupEnvs(id) ==
  IF id = Null THEN {NoLookup}
  ELSE IF id \notin DOMAIN sessions
       THEN {l \in RecoverEnvs(id) : Canonical(id, l) /\ CanLaunch(Launches(id, l))}
  ELSE IF sessions[id].expiry < now THEN {NoLookup}
  ELSE IF sessions[id].browser = "closed"
       THEN {l \in RestoreEnvs(id) : Canonical(id, l) /\ CanLaunch(Launches(id, l))}
  ELSE {NoLookup}

\* The entry a rebuilt session is registered with, with its expiry left at
\* the time of the call.
RebuiltSessionNoTtl(browser) == [browser |-> browser, expiry |-> now]

\* The entry a rebuilt session is registered with (lines 1237, 1274, 1366).
RebuiltSession(browser) == [browser |-> browser, expiry |-> now + SESSION_TTL]

\* Lines 1205-1388: get the session from the table, or rebuild it.  Yields
\* the table and the orphans afterwards, the id the handler goes on with,
\* what the handler's `browser` variable holds, the browsers the attempts
\* that threw have left open, and the error it returns with, if any.
Lookup(id, l) ==
  LET thrown == l.ownFails + l.fbFails
      leaked == IF l.leaks THEN thrown ELSE 0
      session == RebuiltSession("open")
      Dropped(s) == IF s \in LiveSessions THEN 1 ELSE 0
  IN
  IF id \notin DOMAIN sessions THEN
    IF l.ownFails < OwnTries(id) THEN
      [error |-> "", stage |-> "recovered", id |-> id, browser |-> "open",
       sessions |-> Put(sessions, id, session),
       orphans |-> orphans + leaked, leaked |-> leaked]
    ELSE IF l.pick # Null THEN
      [error |-> "", stage |-> "recovered-any", id |-> l.pick, browser |-> "open",
       sessions |-> Put(sessions, l.pick, session),
       orphans |-> orphans + leaked + Dropped(l.pick), leaked |-> leaked]
    ELSE
      [error |-> "Session not found", stage |-> "not-found", id |-> id,
       browser |-> IF leaked = 0 THEN "" ELSE "open", sessions |-> sessions,
       orphans |-> orphans + leaked, leaked |-> leaked]
  ELSE IF sessions[id].expiry < now THEN
    [error |-> "Session expired", stage |-> "expired", id |-> id,
     browser |-> sessions[id].browser, sessions |-> Remove(sessions, {id}),
     orphans |-> orphans + Dropped(id), leaked |-> Dropped(id)]
  ELSE IF sessions[id].browser = "closed" THEN
    IF l.ownFails < OwnTries(id) THEN
      [error |-> "", stage |-> "restored", id |-> id, browser |-> "open",
       sessions |-> Put(sessions, id, session),
       orphans |-> orphans + leaked, leaked |-> leaked]
    ELSE
      [error |-> "Session page closed and cannot be restored", stage |-> "not-restored",
       id |-> id, browser |-> IF leaked = 0 THEN "closed" ELSE "open",
       sessions |-> Remove(sessions, {id}),
       orphans |-> orphans + leaked, leaked |-> leaked]
  ELSE
    [error |-> "", stage |-> "in-memory", id |-> id, browser |-> "open",
     sessions |-> sessions, orphans |-> orphans, leaked |-> 0]

\* What the page shows once the session's page is in hand.
DriveFields == {"otpFound", "fillOk", "submitFound", "idleOk", "urlMatch", "marker",
                "authCookie", "bodyTextOk", "closeThrows"}

\* LoginSuccess with the URL test counted as a signal of its own.
LoginSuccessByUrl(d) ==
  \/ d.urlMatch
  \/ d.marker
  \/ d.authCookie

\* Lines 1471-1517.  The URL alone only adds an indicator, and so does the
\* 'body' selector.
LoginSuccess(d) ==
  \/ d.marker
  \/ d.authCookie
  \/ (d.urlMatch /\ d.bodyTextOk)

\* What the success check finds on the page the portal shows once the code
\* is submitted: the URL test, the four waitForSelector calls, whether the
\* context has cookies and one of them has an auth-like name or a pwc.com
\* domain, and the body text (longer than 100 characters, with 'sign in' or
\* 'login' in it).
LandingFields == {"urlMatch", "table", "dashboard", "bgvText", "body", "cookies",
                  "authCookie", "textLong", "loginVocab"}

\* One scenario per outcome, as for StartEnvs: the selectors after the first
\* marker found are not awaited, the cookies are gone through only when no
\* marker is found, the body text is read only when neither gave a success
\* and the URL matches; what is not looked at is fixed to TRUE.
Landings ==
  {o \in [LandingFields -> BOOLEAN] :
     /\ o.authCookie => o.cookies
     /\ o.table => o.dashboard
     /\ o.dashboard => o.bgvText
     /\ o.bgvText => o.body /\ o.authCookie
     /\ (o.authCookie \/ ~o.urlMatch) => o.textLong /\ o.loginVocab}

NoVerdict == [checked |-> FALSE, loginSuccess |-> FALSE, indicators |-> {}]

\* The selector loop of lines 1480-1498: the first selector found, in the
\* order table, #dashboard, 'Background Verification', body; the loop ends
\* at a marker and goes on after body, which is the last one.
FirstFound(o) ==
  IF o.table THEN "table element"
  ELSE IF o.dashboard THEN "dashboard element"
  ELSE IF o.bgvText THEN "Background Verification text"
  ELSE IF o.body THEN "page body"
  ELSE ""

\* Lines 1471-1517: loginSuccess and successIndicators.
SuccessCheck(o) ==
  LET byUrl == IF o.urlMatch THEN {"URL matches PwC domain"} ELSE {}
      first == FirstFound(o)
      bySelector == IF first = "" THEN {} ELSE {"Found " \o first}
      s1 == first \notin {"", "page body"}
      cookie == ~s1 /\ o.cookies /\ o.authCookie
      s2 == s1 \/ cookie
      content == ~s2 /\ o.urlMatch /\ o.textLong /\ ~o.loginVocab
  IN [checked |-> TRUE,
      loginSuccess |-> s2 \/ content,
      indicators |-> byUrl \cup bySelector
                     \cup (IF cookie THEN {"Auth cookies present"} ELSE {})
                     \cup (IF content THEN {"Page content suggests logged-in state"}
                           ELSE {})]

\* What the handler goes by, of what the success check finds.
Landed(o, x) ==
  [x EXCEPT !.urlMatch = o.urlMatch,
            !.marker = o.table \/ o.dashboard \/ o.bgvText,
            !.authCookie = o.authCookie,
            !.bodyTextOk = o.textLong /\ ~o.loginVocab]

DriveAll == [DriveFields -> BOOLEAN]

\* One scenario per outcome, as for StartEnvs.
DriveEnvs ==
  {d \in DriveAll :
     /\ ~d.otpFound => d.fillOk
     /\ ~(d.otpFound /\ d.fillOk) => d.submitFound
     /\ ~(d.otpFound /\ d.fillOk /\ d.submitFound) => d.idleOk /\ ~d.closeThrows
     /\ ~(d.otpFound /\ d.fillOk /\ d.submitFound /\ d.idleOk)
          => d.urlMatch /\ d.marker /\ d.authCookie /\ d.bodyTextOk
     /\ d.marker => d.authCookie /\ d.urlMatch /\ d.bodyTextOk
     /\ d.authCookie => d.urlMatch /\ d.bodyTextOk}

\* Lines 1390-1551: how the handler leaves once it has the session.
CompleteLoginPath(d) ==
  IF ~d.otpFound THEN
    [how |-> "return", code |-> 500, error |-> "OTP field not found",
     step |-> "otp:input", stage |-> "code-entry"]
  ELSE IF ~d.fillOk THEN
    [how |-> "return", code |-> 500, error |-> "OTP entry failed",
     step |-> "otp:input", stage |-> "code-entry"]
  ELSE IF ~d.submitFound THEN
    [how |-> "return", code |-> 500, error |-> "Submit button not found",
     step |-> "otp:submit", stage |-> "code-entry"]
  ELSE IF ~d.idleOk THEN
    [how |-> "catch", code |-> 500, error |-> "exception",
     step |-> "OTP", stage |-> "submitted"]
  ELSE IF ~LoginSuccess(d) THEN
    [how |-> "close", code |-> 500, error |-> "Login incomplete",
     step |-> "login:success-check", stage |-> "no-signal"]
  ELSE
    [how |-> "close", code |-> 200, error |-> "",
     step |-> "", stage |-> "signal"]

\* The table after a handler that closes the browser and leaves the entry.
AfterDriveKept(tbl, id, cleaned, closed) ==
  IF closed THEN [tbl EXCEPT ![id].browser = "closed"] ELSE tbl

\* The table after the browser was driven: `await browser.close();
\* sessions.delete(effectiveSessionId)` (lines 1521-1522, 1542-1543) when the
\* close goes through; the entry stays, its browser closed or not, when the
\* handler ends in the catch block (1553-1567) or returns early.
AfterDrive(tbl, id, cleaned, closed) ==
  IF cleaned THEN Remove(tbl, {id})
  ELSE IF closed THEN [tbl EXCEPT ![id].browser = "closed"]
  ELSE tbl

CompleteLoginHandler(session_id, otp, l, d) ==
  LET effectiveSessionId == IF session_id # Null THEN session_id ELSE latestSessionId
  IN
  IF ~otp THEN
    /\ resp' = Fail("complete-login", 400, "Missing otp", "OTP", "otp")
    /\ UNCHANGED store
  ELSE IF effectiveSessionId = Null THEN
    /\ resp' = Fail("complete-login", 400,
                    "No active session. Please start login first.", "OTP", "otp")
    /\ UNCHANGED store
  ELSE
    LET L == Lookup(effectiveSessionId, l)
        p == CompleteLoginPath(d)
        thrown == p.how = "close" /\ d.closeThrows
        cleaned == p.how = "close" /\ ~d.closeThrows
        closed == ClosedBy(p.how, d.closeThrows)
        Way(r) == [r EXCEPT !.session_id = L.id,
                            !.found = Cardinality(DOMAIN sessions),
                            !.requested = effectiveSessionId, !.lookup = L.stage,
                            !.hadFile = effectiveSessionId \in files,
                            !.thrown = l.ownFails + l.fbFails]
        Left(r) == [r EXCEPT !.browser = IF closed THEN "closed" ELSE "open",
                             !.leftOpen = L.leaked + (IF closed THEN 0 ELSE 1)]
    IN
    /\ UNCHANGED <<latestSessionId, nextSession>>
    /\ orphans' = L.orphans
    /\ IF L.error # ""
       THEN /\ sessions' = L.sessions
            /\ UNCHANGED files
            /\ resp' = [Way(Fail("complete-login", 400, L.error, "OTP", "lookup"))
                          EXCEPT !.browser = L.browser, !.leftOpen = L.leaked]
       ELSE /\ sessions' = AfterDrive(L.sessions, L.id, cleaned, closed)
            /\ files' = IF cleaned THEN files \ {L.id} ELSE files
            /\ resp' =
                 IF p.code = 200 /\ ~thrown
                 THEN Left(Way([NoResp EXCEPT !.op = "complete-login", !.code = 200,
                                  !.ok = TRUE, !.message = "Login complete",
                                  !.stage = p.stage]))
                 ELSE Left(Way(Fail("complete-login", 500,
                                    IF thrown THEN "exception" ELSE p.error,
                                    IF thrown THEN "OTP" ELSE p.step,
                                    p.stage)))

CompleteLogin(session_id, otp, l, d) ==
  /\ CompleteLoginHandler(session_id, otp, l, d)
  /\ UNCHANGED <<now, credsOk, resolver, inflight, queue, timing, handoff>>

\* One request per outcome: a request without otp, or without any session id
\* to go on, looks at neither the files nor the page.
CompleteRequests ==
  {<<s, o>> : s \in SessionIds \cup {Null}, o \in BOOLEAN}

EffectiveId(session_id) == IF session_id # Null THEN session_id ELSE latestSessionId

AllPass == [f \in DriveFields |-> f # "closeThrows"]

LookupEnvsFor(session_id, otp) ==
  IF ~otp THEN {NoLookup} ELSE LookupEnvs(EffectiveId(session_id))

\* The page is not looked at either when the lookup ends the request.
DriveEnvsFor(session_id, otp, l) ==
  IF ~otp \/ EffectiveId(session_id) = Null THEN {AllPass}
  ELSE IF Lookup(EffectiveId(session_id), l).error # "" THEN {AllPass}
  ELSE DriveEnvs

\* ----------------------------------------------------- cleanupExpiredSessions
\* The callback of setInterval(cleanupExpiredSessions, CLEANUP_INTERVAL).
\* throwers: the sessions whose browser.close() throws; closing a browser
\* that is closed already does nothing.
Expired == {s \in DOMAIN sessions : sessions[s].expiry < now}

\* The sweep without its expiry test: every session of the table goes.
cleanupAllSessions(throwers) ==
  /\ throwers \subseteq Expired \cap LiveSessions
  /\ orphans' = orphans + Cardinality(throwers)
  /\ files' = files \ (DOMAIN sessions \ throwers)
  /\ sessions' = EmptyMap
  /\ UNCHANGED <<latestSessionId, nextSession>>

\* Lines 916-932.
cleanupExpiredSessions(throwers) ==
  /\ throwers \subseteq Expired \cap LiveSessions
  /\ orphans' = orphans + Cardinality(throwers)
  /\ files' = files \ (Expired \ throwers)
  /\ sessions' = Remove(sessions, Expired)
  /\ UNCHANGED <<latestSessionId, nextSession>>

Sweep(throwers) ==
  /\ Expired # {}
  /\ cleanupExpiredSessions(throwers)
  /\ UNCHANGED <<now, credsOk, resolver, inflight, queue, timing, handoff, resp>>

\* ------------------------------------------------------ DELETE /sessions/all
\* DeleteAll without the pass over the snapshot directory: only the files of
\* the sessions of the table are unlinked.
DeleteAllTableOnly(throwers) ==
  LET closed == DOMAIN sessions \ throwers
  IN
  /\ throwers \subseteq LiveSessions
  /\ sessions' = Remove(sessions, closed)
  /\ files' = files \ closed
  /\ resp' = [NoResp EXCEPT !.op = "delete-all", !.code = 200, !.ok = TRUE,
                !.message = "All sessions deleted",
                !.found = Cardinality(DOMAIN sessions),
                !.deleted = Cardinality(closed), !.errors = Cardinality(throwers),
                !.leftOpen = Cardinality(throwers)]
  /\ UNCHANGED <<latestSessionId, orphans, nextSession>>
  /\ UNCHANGED <<now, credsOk, resolver, inflight, queue, timing, handoff>>

DeleteAll(throwers) ==
  LET closed == DOMAIN sessions \ throwers
  IN
  /\ throwers \subseteq LiveSessions
  /\ sessions' = Remove(sessions, closed)
  /\ files' = {}
  /\ resp' = [NoResp EXCEPT !.op = "delete-all", !.code = 200, !.ok = TRUE,
                !.message = "All sessions deleted",
                !.found = Cardinality(DOMAIN sessions),
                !.deleted = Cardinality(closed), !.errors = Cardinality(throwers),
                !.leftOpen = Cardinality(throwers)]
  /\ UNCHANGED <<latestSessionId, orphans, nextSession>>
  /\ UNCHANGED <<now, credsOk, resolver, inflight, queue, timing, handoff>>

\* ---------------------------------------------- DELETE /sessions/:session_id
\* DeleteSession unlinking the snapshot file before it looks at the table.
DeleteSessionUnlinksFirst(sessionId, closeThrows) ==
  /\ IF sessionId \notin DOMAIN sessions
     THEN /\ resp' = [Fail("delete", 404, "Session not found", "", "lookup")
                        EXCEPT !.session_id = sessionId]
          /\ files' = files \ {sessionId}
          /\ UNCHANGED sessions
     ELSE IF closeThrows
     THEN /\ resp' = [Fail("delete", 500, "exception", "", "close")
                        EXCEPT !.session_id = sessionId, !.browser = "open",
                               !.leftOpen = 1]
          /\ UNCHANGED <<sessions, files>>
     ELSE /\ files' = files \ {sessionId}
          /\ sessions' = Remove(sessions, {sessionId})
          /\ resp' = [NoResp EXCEPT !.op = "delete", !.code = 200, !.ok = TRUE,
                        !.message = "Session deleted", !.session_id = sessionId,
                        !.stage = "deleted", !.browser = "closed"]
  /\ UNCHANGED <<latestSessionId, orphans, nextSession>>
  /\ UNCHANGED <<now, credsOk, resolver, inflight, queue, timing, handoff>>

\* Lines 1622-1654.
DeleteSession(sessionId, closeThrows) ==
  /\ IF sessionId \notin DOMAIN sessions
     THEN /\ resp' = [Fail("delete", 404, "Session not found", "", "lookup")
                        EXCEPT !.session_id = sessionId]
          /\ UNCHANGED <<sessions, files>>
     ELSE IF closeThrows
     THEN /\ resp' = [Fail("delete", 500, "exception", "", "close")
                        EXCEPT !.session_id = sessionId, !.browser = "open",
                               !.leftOpen = 1]
          /\ UNCHANGED <<sessions, files>>
     ELSE /\ files' = files \ {sessionId}
          /\ sessions' = Remove(sessions, {sessionId})
          /\ resp' = [NoResp EXCEPT !.op = "delete", !.code = 200, !.ok = TRUE,
                        !.message = "Session deleted", !.session_id = sessionId,
                        !.stage = "deleted", !.browser = "closed"]
  /\ UNCHANGED <<latestSessionId, orphans, nextSession>>
  /\ UNCHANGED <<now, credsOk, resolver, inflight, queue, timing, handoff>>

\* One request per outcome: close throws only for a browser that is open.
DeleteRequests ==
  {<<s, c>> \in SessionIds \X BOOLEAN : c => s \in LiveSessions}

\* ------------------------------------------------------------------ queueJob
\* queueJob without its setImmediate: the ticket is there, no unit of work is.
queueJobNoRun(kind, session_id, otp) ==
  /\ nextTicket <= MaxTickets
  /\ tickets' = Put(tickets, nextTicket,
                    [status |-> "queued", result |-> NoBody, error |-> ""])
  /\ jobs' = jobs
  /\ nextTicket' = nextTicket + 1

\* tickets.set(id, { status: 'queued' }); setImmediate(...) holds the unit of
\* work until it runs.
queueJob(kind, session_id, otp) ==
  /\ nextTicket <= MaxTickets
  /\ tickets' = Put(tickets, nextTicket,
                    [status |-> "queued", result |-> NoBody, error |-> ""])
  /\ jobs' = Put(jobs, nextTicket,
                 [kind |-> kind, session_id |-> session_id, otp |-> otp,
                  phase |-> "queued", out |-> NoBody])
  /\ nextTicket' = nextTicket + 1

\* POST /zapier-start-login
ZapierStartLogin ==
  /\ queueJob("start-login", Null, FALSE)
  /\ resp' = [NoResp EXCEPT !.op = "zapier-start-login", !.code = 200, !.ok = TRUE,
                !.message = "Login queued", !.ticket_id = nextTicket]
  /\ UNCHANGED <<now, credsOk, resolver, inflight, store, timing, handoff>>

\* POST /zapier-complete-login
ZapierCompleteLogin(session_id, otp) ==
  /\ queueJob("complete-login", session_id, otp)
  /\ resp' = [NoResp EXCEPT !.op = "zapier-complete-login", !.code = 200, !.ok = TRUE,
                !.message = "Completion queued", !.ticket_id = nextTicket]
  /\ UNCHANGED <<now, credsOk, resolver, inflight, store, timing, handoff>>

\* JobFetchFails with the ticket of a unit of work that threw taken out of
\* the table.
JobFetchFailsDrop(t) ==
  /\ t \in DOMAIN jobs
  /\ jobs[t].phase = "queued"
  /\ tickets' = Remove(tickets, {t})
  /\ jobs' = Remove(jobs, {t})
  /\ UNCHANGED <<now, credsOk, resolver, inflight, store, nextTicket, timing, handoff, resp>>

\* The setImmediate callback runs the unit of work up to its await fetch(...):
\* the fetch of the unit of ticket t rejects.
JobFetchFails(t) ==
  /\ t \in DOMAIN jobs
  /\ jobs[t].phase = "queued"
  /\ tickets' = Put(tickets, t, [status |-> "error", result |-> NoBody,
                                 error |-> "fetch failed"])
  /\ jobs' = Remove(jobs, {t})
  /\ UNCHANGED <<now, credsOk, resolver, inflight, store, nextTicket, timing, handoff, resp>>

\* The inner POST /start-login of the unit of ticket t is served.
JobStartLogin(t, e) ==
  /\ t \in DOMAIN jobs
  /\ jobs[t].phase = "queued"
  /\ jobs[t].kind = "start-login"
  /\ StartLoginHandler(e)
  /\ jobs' = [jobs EXCEPT ![t].phase = "returned", ![t].out = Body(resp')]
  /\ UNCHANGED <<now, credsOk, resolver, inflight, tickets, nextTicket, timing, handoff>>

\* The inner POST /complete-login of the unit of ticket t is served.
JobCompleteLogin(t, l, d) ==
  /\ t \in DOMAIN jobs
  /\ jobs[t].phase = "queued"
  /\ jobs[t].kind = "complete-login"
  /\ CompleteLoginHandler(jobs[t].session_id, jobs[t].otp, l, d)
  /\ jobs' = [jobs EXCEPT ![t].phase = "returned", ![t].out = Body(resp')]
  /\ UNCHANGED <<now, credsOk, resolver, inflight, tickets, nextTicket, timing, handoff>>

\* JobSettle that goes by the body: a failure body settles the ticket as
\* 'error'.
JobSettleByBody(t, jsonOk) ==
  /\ t \in DOMAIN jobs
  /\ jobs[t].phase = "returned"
  /\ tickets' = Put(tickets, t,
                    IF jsonOk /\ jobs[t].out.ok
                    THEN [status |-> "done", result |-> jobs[t].out, error |-> ""]
                    ELSE [status |-> "error", result |-> NoBody,
                          error |-> "invalid json"])
  /\ latestSessionId' =
       IF jsonOk /\ jobs[t].kind = "start-login" /\ jobs[t].out.session_id # Null
       THEN jobs[t].out.session_id ELSE latestSessionId
  /\ jobs' = Remove(jobs, {t})
  /\ UNCHANGED <<now, credsOk, resolver, inflight, sessions, files, orphans, nextSession,
                 nextTicket, timing, handoff, resp>>

\* JobSettle with the unit of work left in place once its ticket is settled,
\* so that it may settle the ticket again.
JobSettleAgain(t, jsonOk) ==
  /\ t \in DOMAIN jobs
  /\ jobs[t].phase = "returned"
  /\ tickets' = Put(tickets, t,
                    IF jsonOk
                    THEN [status |-> "done", result |-> jobs[t].out, error |-> ""]
                    ELSE [status |-> "error", result |-> NoBody,
                          error |-> "invalid json"])
  /\ latestSessionId' =
       IF jsonOk /\ jobs[t].kind = "start-login" /\ jobs[t].out.session_id # Null
       THEN jobs[t].out.session_id ELSE latestSessionId
  /\ UNCHANGED jobs
  /\ UNCHANGED <<now, credsOk, resolver, inflight, sessions, files, orphans, nextSession,
                 nextTicket, timing, handoff, resp>>

\* The unit of ticket t goes on after its fetch: r.json() is read, the
\* start-login wrapper sets latestSessionId, and the ticket is settled.
JobSettle(t, jsonOk) ==
  /\ t \in DOMAIN jobs
  /\ jobs[t].phase = "returned"
  /\ tickets' = Put(tickets, t,
                    IF jsonOk
                    THEN [status |-> "done", result |-> jobs[t].out, error |-> ""]
                    ELSE [status |-> "error", result |-> NoBody,
                          error |-> "invalid json"])
  /\ latestSessionId' =
       IF jsonOk /\ jobs[t].kind = "start-login" /\ jobs[t].out.session_id # Null
       THEN jobs[t].out.session_id ELSE latestSessionId
  /\ jobs' = Remove(jobs, {t})
  /\ UNCHANGED <<now, credsOk, resolver, inflight, sessions, files, orphans, nextSession,
                 nextTicket, timing, handoff, resp>>

\* GET /status/:ticket_id
GetStatus(ticket_id) ==
  /\ resp' = IF ticket_id \notin DOMAIN tickets
             THEN [Fail("status", 404, "Unknown ticket", "", "")
                     EXCEPT !.ticket_id = ticket_id]
             ELSE [NoResp EXCEPT !.op = "status", !.code = 200, !.ok = TRUE,
                     !.ticket_id = ticket_id,
                     !.status = tickets[ticket_id].status,
                     !.result = tickets[ticket_id].result,
                     !.error = tickets[ticket_id].error]
  /\ UNCHANGED <<now, credsOk, resolver, inflight, store, queue, timing, handoff>>

\* ---------------------------------------------------------------- scheduler
\* startScheduler without its clearInterval: the interval set before goes on.
startSchedulerNoClear ==
  /\ nextTimer <= MaxTimers
  /\ timers' = timers \cup {nextTimer}
  /\ scheduleTimer' = nextTimer
  /\ nextTimer' = nextTimer + 1

\* startScheduler(): the interval of scheduleTimer, if any, is cleared and a
\* new one is set.
startScheduler ==
  /\ nextTimer <= MaxTimers
  /\ timers' = (timers \ {scheduleTimer}) \cup {nextTimer}
  /\ scheduleTimer' = nextTimer
  /\ nextTimer' = nextTimer + 1

\* SCHEDULE_ENABLED is 'true': startScheduler() is called while the module
\* loads, before any request is served.
StartupScheduler ==
  /\ nextTimer = 1 /\ nextSession = 1 /\ nextTicket = 1
  /\ startScheduler
  /\ UNCHANGED <<now, credsOk, resolver, inflight, store, queue, sched, handoff, resp>>

\* POST /schedule/start
ScheduleStart ==
  /\ startScheduler
  /\ resp' = [NoResp EXCEPT !.op = "schedule-start", !.code = 200, !.ok = TRUE,
                !.status = "running"]
  /\ UNCHANGED <<now, credsOk, resolver, inflight, store, queue, sched, handoff>>

\* POST /schedule/stop
ScheduleStop ==
  /\ timers' = timers \ {scheduleTimer}
  /\ scheduleTimer' = Null
  /\ resp' = [NoResp EXCEPT !.op = "schedule-stop", !.code = 200, !.ok = TRUE,
                !.status = "stopped"]
  /\ UNCHANGED <<now, credsOk, resolver, inflight, store, queue, nextTimer, sched, handoff>>

\* The interval tm fires and the inner POST /start-login of its callback is
\* served; sched holds what the callback reads once its fetch has returned.
SchedulerFire(tm, e) ==
  /\ tm \in timers
  /\ sched = NoBody
  /\ StartLoginHandler(e)
  /\ sched' = Body(resp')
  /\ UNCHANGED <<now, credsOk, resolver, inflight, queue, scheduleTimer, timers,
                 nextTimer, handoff>>

\* The callback goes on after its fetch: r.json() is read (null when that
\* throws) and latestSessionId is set.
SchedulerSettle(jsonOk) ==
  /\ sched # NoBody
  /\ latestSessionId' =
       IF jsonOk /\ sched.session_id # Null THEN sched.session_id ELSE latestSessionId
  /\ sched' = NoBody
  /\ UNCHANGED <<now, credsOk, resolver, inflight, sessions, files, orphans, nextSession, queue,
                 scheduleTimer, timers, nextTimer, handoff, resp>>

\* ----------------------------------------------------------- element resolver
\* tryFill, tryClick and waitForAnySelector (lines 806-825) go through an
\* ordered selector list.  What the page makes of a selector: "absent",
\* page.waitForSelector times out; "inert", it resolves and page.fill and
\* page.click both throw; "button", page.click goes through and page.fill
\* throws; "input", both go through.
SelectorNames == {"a", "b", "c"}
ElementStates == {"absent", "inert", "button", "input"}
NoSelector == ""

SelectorLists == UNION {[1..n -> SelectorNames] : n \in 0..MaxSelectors}
Pages == [SelectorNames -> ElementStates]

\* await page.waitForSelector(sel, { timeout }) resolves.
Resolves(p, sel) == p[sel] # "absent"

\* The call after the wait goes through: page.fill, page.click, or nothing
\* at all for waitForAnySelector.
ActionOk(kind, p, sel) ==
  IF kind = "fill" THEN p[sel] = "input"
  ELSE IF kind = "click" THEN p[sel] \in {"button", "input"}
  ELSE TRUE

\* for (const sel of selectors) { try { wait; act; return } catch (_) {} }
\* ret: whether the loop returned from inside; sel: the selector it returned
\* at; tried: the selectors whose wait resolved, on which the call was made.
RECURSIVE tryEach(_, _, _)
tryEach(kind, p, sels) ==
  IF sels = <<>> THEN [ret |-> FALSE, sel |-> NoSelector, tried |-> <<>>]
  ELSE LET s == Head(sels)
       IN IF Resolves(p, s) /\ ActionOk(kind, p, s)
          THEN [ret |-> TRUE, sel |-> s, tried |-> <<s>>]
          ELSE LET r == tryEach(kind, p, Tail(sels))
               IN [r EXCEPT !.tried =
                     (IF Resolves(p, s) THEN <<s>> ELSE <<>>) \o @]

\* tryFill with a loop that does not return at the first fill that goes
\* through: every selector is tried and the last one filled is reported.
tryFillLast(p, sels) ==
  LET good == {i \in 1..Len(sels) : Resolves(p, sels[i]) /\ ActionOk("fill", p, sels[i])}
      IsResolved(s) == Resolves(p, s)
  IN [ret |-> good # {},
      sel |-> IF good = {} THEN NoSelector
              ELSE sels[CHOOSE i \in good : \A j \in good : j <= i],
      tried |-> SelectSeq(sels, IsResolved)]

tryFill(p, sels) == tryEach("fill", p, sels)

tryClick(p, sels) == tryEach("click", p, sels)

\* Returns the selector, or null (NoSelector).
waitForAnySelector(p, sels) == tryEach("wait", p, sels)

NoOut == [fn |-> "", ret |-> FALSE, sel |-> NoSelector, tried |-> <<>>]

Returned(fn, r) == [fn |-> fn, ret |-> r.ret, sel |-> r.sel, tried |-> r.tried]

\* One call of a resolver on the page.
TryFill ==
  /\ out' = Returned("tryFill", tryFill(page, selectors))
  /\ UNCHANGED <<now, credsOk, store, queue, timing, handoff, inflight, selectors, page, send,
                 otpPage, otpOut, verdict, resp>>

TryClick ==
  /\ out' = Returned("tryClick", tryClick(page, selectors))
  /\ UNCHANGED <<now, credsOk, store, queue, timing, handoff, inflight, selectors, page, send,
                 otpPage, otpOut, verdict, resp>>

WaitForAnySelector ==
  /\ out' = Returned("waitForAnySelector", waitForAnySelector(page, selectors))
  /\ UNCHANGED <<now, credsOk, store, queue, timing, handoff, inflight, selectors, page, send,
                 otpPage, otpOut, verdict, resp>>

\* ---------------------------------------------------- the send-my-code search
\* Lines 1026-1080 of start-login, one await at a time.  The frames searched
\* are [page.mainFrame(), ...page.frames()]: page.frames() holds the main
\* frame too, so a page of n frames is searched in n + 1 visits.
BtnSelectors == 4
PollLimit == 10

\* What btn.getAttribute('disabled') resolves to: null (no such attribute, or
\* the call rejected), "" (the bare attribute) or a non-empty value.
DisabledAttrs == {"null", "", "disabled"}

\* `!disabled` in JavaScript.
NotDisabled(attr) == attr \in {"null", ""}

NoSend == [pc |-> "idle", visits |-> 0, frame |-> 0, sel |-> 0, polls |-> 0,
           clicks |-> 0, throws |-> 0, js |-> FALSE, jsClicked |-> FALSE,
           result |-> ""]

\* The search starts on a page of n frames (lines 1026-1027).
SendBegin(n) ==
  /\ send.pc = "idle"
  /\ send' = [NoSend EXCEPT !.pc = "button", !.visits = n + 1, !.frame = 1,
                            !.sel = 1]
  /\ UNCHANGED <<now, credsOk, store, queue, timing, handoff, inflight, selectors, page, out,
                 otpPage, otpOut, verdict, resp>>

\* The loops go on to the next selector, the next frame, or end (lines 1029,
\* 1037, 1061).
NextButton(s) ==
  IF s.sel < BtnSelectors THEN [s EXCEPT !.pc = "button", !.sel = s.sel + 1]
  ELSE IF s.frame < s.visits
       THEN [s EXCEPT !.pc = "button", !.frame = s.frame + 1, !.sel = 1]
       ELSE [s EXCEPT !.pc = "script"]

\* frame.locator(sel).first() and its count (lines 1039-1042); waitFor has
\* its rejection swallowed.
SendLocate(found) ==
  /\ send.pc = "button"
  /\ send' = IF found THEN [send EXCEPT !.pc = "poll", !.polls = 0]
                      ELSE NextButton(send)
  /\ UNCHANGED <<now, credsOk, store, queue, timing, handoff, inflight, selectors, page, out,
                 otpPage, otpOut, verdict, resp>>

\* One round of the polling loop that goes on with the next selector after
\* a click.
SendPollOn(attr, clickOk) ==
  /\ send.pc = "poll"
  /\ send.polls < PollLimit
  /\ LET s == [send EXCEPT !.polls = send.polls + 1] IN
     send' = IF NotDisabled(attr)
             THEN IF clickOk THEN NextButton([s EXCEPT !.clicks = s.clicks + 1])
                             ELSE NextButton([s EXCEPT !.throws = s.throws + 1])
             ELSE IF s.polls = PollLimit THEN NextButton(s) ELSE s
  /\ UNCHANGED <<now, credsOk, store, queue, timing, handoff, inflight, selectors, page, out,
                 otpPage, otpOut, verdict, resp>>

\* One round of the polling loop (lines 1044-1052): a click that goes
\* through ends the search (1047-1048, 1054, 1060); one that throws is
\* caught and the next selector is tried (1056-1058); after the tenth
\* disabled reading the next selector is tried.
SendPoll(attr, clickOk) ==
  /\ send.pc = "poll"
  /\ send.polls < PollLimit
  /\ LET s == [send EXCEPT !.polls = send.polls + 1] IN
     send' = IF NotDisabled(attr)
             THEN IF clickOk THEN [s EXCEPT !.pc = "wait", !.clicks = s.clicks + 1]
                             ELSE NextButton([s EXCEPT !.throws = s.throws + 1])
             ELSE IF s.polls = PollLimit THEN NextButton(s) ELSE s
  /\ UNCHANGED <<now, credsOk, store, queue, timing, handoff, inflight, selectors, page, out,
                 otpPage, otpOut, verdict, resp>>

\* No frame yielded a click (lines 1063-1080): page.evaluate looks for a
\* control matching /send.*code/i, clicks it or not, or rejects.
SendScript(outcome) ==
  /\ send.pc = "script"
  /\ send' = IF outcome = "clicked"
             THEN [send EXCEPT !.pc = "wait", !.js = TRUE, !.jsClicked = TRUE]
             ELSE [send EXCEPT !.pc = "done", !.js = TRUE,
                               !.result = "MFA selection failed"]
  /\ UNCHANGED <<now, credsOk, store, queue, timing, handoff, inflight, selectors, page, out,
                 otpPage, otpOut, verdict, resp>>

\* The wait for the code input after a click (line 1082), and the catch
\* block of the step when it times out (1083-1092).
SendWait(shown) ==
  /\ send.pc = "wait"
  /\ send' = [send EXCEPT !.pc = "done",
                          !.result = IF shown THEN "selected"
                                              ELSE "MFA selection failed"]
  /\ UNCHANGED <<now, credsOk, store, queue, timing, handoff, inflight, selectors, page, out,
                 otpPage, otpOut, verdict, resp>>

SendNext ==
  \/ \E n \in 1..MaxFrames : SendBegin(n)
  \/ \E found \in BOOLEAN : SendLocate(found)
  \/ \E attr \in DisabledAttrs, clickOk \in BOOLEAN : SendPoll(attr, clickOk)
  \/ \E outcome \in {"clicked", "none", "throws"} : SendScript(outcome)
  \/ \E shown \in BOOLEAN : SendWait(shown)

\* ------------------------------------- complete-login, one await at a time
\* A handler runs until its next await, where another handler may go on
\* (Node's event loop; nothing in the file serialises requests).  Browsers
\* have an identity here: the one start-login launched for a session, or the
\* one call c launched while rebuilding it.
Calls == 1..MaxCalls
LoginBrowser == MaxCalls + 1

NoCall == [pc |-> "idle", id |-> Null, browser |-> Null, lost |-> FALSE,
           replaced |-> FALSE, result |-> ""]

InProgress(c) == calls[c].pc \in {"recovering", "driving"}

\* Calls other than c that are driving browser b of session id.
Driving(c, id, b) ==
  {k \in Calls \ {c} : calls[k].pc = "driving" /\ calls[k].id = id
                         /\ calls[k].browser = b}

\* Browsers running that no entry holds and no call in progress has.
Unheld(tbl, cs, run) ==
  {b \in run : /\ ~(b[1] \in DOMAIN tbl /\ tbl[b[1]] = b[2])
               /\ ~\E k \in Calls : /\ cs[k].pc \in {"recovering", "driving"}
                                     /\ cs[k].id = b[1] /\ cs[k].browser = b[2]}

\* Lines 1189-1205 and 1303-1325: the handler looks the session up; with an
\* entry whose page is open it goes on to drive that entry's browser
\* (`browser = session.browser`), otherwise to rebuild the session from its
\* snapshot file.
CallBegin(c, id) ==
  /\ calls[c].pc = "idle"
  /\ id \in DOMAIN sessions \/ id \in files
  /\ id \in DOMAIN sessions => sessions[id].expiry >= now
  /\ calls' = [calls EXCEPT ![c] =
       IF id \in DOMAIN sessions /\ sessions[id].browser = "open"
       THEN [NoCall EXCEPT !.pc = "driving", !.id = id, !.browser = holds[id]]
       ELSE [NoCall EXCEPT !.pc = "recovering", !.id = id]]
  /\ UNCHANGED <<now, credsOk, resolver, store, queue, timing, handoff, holds, running,
                 resp>>

\* Lines 1207-1244 (and 1326-1387): the snapshot is read, a browser launched
\* and `sessions.set(effectiveSessionId, session)` puts it in the table,
\* over whatever entry another call has put there since.
CallRecovered(c) ==
  LET id == calls[c].id
      over == id \in DOMAIN sessions /\ sessions[id].browser = "open"
  IN
  /\ calls[c].pc = "recovering"
  /\ id \in files
  /\ running' = running \cup {<<id, c>>}
  /\ holds' = Put(holds, id, c)
  /\ sessions' = Put(sessions, id, RebuiltSession("open"))
  /\ calls' = [k \in Calls |->
       IF k = c THEN [calls[c] EXCEPT !.pc = "driving", !.browser = c]
       ELSE IF over /\ k \in Driving(c, id, holds[id])
            THEN [calls[k] EXCEPT !.replaced = TRUE]
            ELSE calls[k]]
  /\ orphans' = Cardinality(Unheld(holds', calls', running'))
  /\ UNCHANGED <<now, credsOk, resolver, latestSessionId, files, nextSession, queue,
                 timing, handoff, resp>>

\* Lines 1390-1567: the code is entered and submitted in the handler's
\* browser and the handler leaves as CompleteLoginPath says; when another
\* call has closed that browser meanwhile, the next page call throws and the
\* handler leaves through the catch block.
CallEnd(c, d) ==
  LET id == calls[c].id
      b == calls[c].browser
      p == CompleteLoginPath(d)
      lost == calls[c].lost
      how == IF lost THEN "catch" ELSE p.how
      closed == ~lost /\ ClosedBy(how, d.closeThrows)
      cleaned == how = "close" /\ closed
      mine == id \in DOMAIN holds /\ holds[id] = b
      result == IF lost \/ (how = "close" /\ ~closed) THEN "exception"
                ELSE IF p.code = 200 THEN "Login complete" ELSE p.error
  IN
  /\ calls[c].pc = "driving"
  /\ running' = IF closed THEN running \ {<<id, b>>} ELSE running
  /\ sessions' = IF cleaned THEN Remove(sessions, {id})
                 ELSE AfterDrive(sessions, id, FALSE, closed /\ mine)
  /\ holds' = IF cleaned THEN Remove(holds, {id}) ELSE holds
  /\ files' = IF cleaned THEN files \ {id} ELSE files
  /\ calls' = [k \in Calls |->
       IF k = c THEN [calls[c] EXCEPT !.pc = "done", !.result = result]
       ELSE IF closed /\ k \in Driving(c, id, b)
            THEN [calls[k] EXCEPT !.lost = TRUE]
            ELSE calls[k]]
  /\ orphans' = Cardinality(Unheld(holds', calls', running'))
  /\ UNCHANGED <<now, credsOk, resolver, latestSessionId, nextSession, queue, timing,
                 handoff, resp>>

\* cleanupExpiredSessions (lines 916-932) firing between two awaits of the
\* calls in progress: it closes the browser of every expired entry, whoever
\* is using it, unlinks the snapshot and removes the entry; a close that
\* throws leaves browser and file.
CallSweep(throwers) ==
  LET shut == {<<s, holds[s]>> : s \in Expired \ throwers}
  IN
  /\ Expired # {}
  /\ throwers \subseteq Expired \cap LiveSessions
  /\ sessions' = Remove(sessions, Expired)
  /\ holds' = Remove(holds, Expired)
  /\ files' = files \ (Expired \ throwers)
  /\ running' = running \ shut
  /\ calls' = [k \in Calls |->
       IF calls[k].pc = "driving" /\ <<calls[k].id, calls[k].browser>> \in shut
       THEN [calls[k] EXCEPT !.lost = TRUE]
       ELSE calls[k]]
  /\ orphans' = Cardinality(Unheld(holds', calls', running'))
  /\ UNCHANGED <<now, credsOk, resolver, latestSessionId, nextSession, queue, timing,
                 handoff, resp>>

\* The handler has answered; the next request takes its place.
CallDone(c) ==
  /\ calls[c].pc = "done"
  /\ calls' = [calls EXCEPT ![c] = NoCall]
  /\ UNCHANGED <<now, credsOk, resolver, store, queue, timing, handoff, holds, running,
                 resp>>

\* ------------------------------------------------- findOtpInputInAllFrames
\* A frame as one round of the search sees it: whether the first match of
\* some code-input selector is visible in it (lines 828-844, 864-866),
\* whether some submit selector's first match is (846-856), and whether a
\* 'One-time verification code' label with a visible input beside it is
\* (887-894).
OtpFrames == [input : BOOLEAN, submit : BOOLEAN, label : BOOLEAN]

\* page.frames(), the main frame first.
OtpPages == UNION {[1..n -> OtpFrames] : n \in 1..MaxFrames}

NoInput == [found |-> FALSE, visit |-> 0, frame |-> 0, via |-> ""]

\* allFrames = [page, ...page.frames()] (line 859): visit 1 is the page
\* itself, whose locators look into the main frame.
OtpVisits(pg) == Len(pg) + 1
FrameOf(v) == IF v = 1 THEN 1 ELSE v - 1

\* Lines 861-899 for the frames from visit v on.  race: whether the visibility
\* check that settles first in Promise.race (868-872) is one of a visible
\* submit control.  page.locator(...) of line 878 looks into the main frame.
RECURSIVE findFrom(_, _, _)
findFrom(pg, race, v) ==
  IF v > OtpVisits(pg) THEN NoInput
  ELSE LET f == pg[FrameOf(v)]
           hasSubmit == f.submit /\ race
           hasSubmitAnywhere == pg[1].submit
       IN IF f.input /\ (hasSubmit \/ hasSubmitAnywhere \/ v = 1)
          THEN [found |-> TRUE, visit |-> v, frame |-> FrameOf(v), via |-> "selector"]
          ELSE IF f.label
               THEN [found |-> TRUE, visit |-> v, frame |-> FrameOf(v), via |-> "label"]
               ELSE findFrom(pg, race, v + 1)

\* One round of the while loop on a page that does not change (lines
\* 827-908); null when no frame yields an input.
findOtpInputInAllFrames(pg, race) == findFrom(pg, race, 1)

FindOtpInput(race) ==
  /\ otpOut = NoInput
  /\ otpOut' = findOtpInputInAllFrames(otpPage, race)
  /\ UNCHANGED <<now, credsOk, store, queue, timing, handoff, inflight, selectors, page, out,
                 send, otpPage, verdict, resp>>

\* ------------------------------------------------------------ the process
\* The process goes down and comes up again: module-level state is set anew
\* (lines 752-755, 1699, 1751), its browsers go down with it, the snapshot
\* directory and the environment stay.
Restart ==
  /\ sessions' = EmptyMap
  /\ latestSessionId' = Null
  /\ orphans' = 0
  /\ tickets' = EmptyMap
  /\ jobs' = EmptyMap
  /\ scheduleTimer' = Null
  /\ timers' = {}
  /\ sched' = NoBody
  /\ UNCHANGED <<now, credsOk, resolver, inflight, files, nextSession, nextTicket,
                 nextTimer, handoff,
                 resp>>

\* The process comes up again in another environment: PWC_EMAIL and
\* PWC_PASSWORD are read while the module loads (lines 747-748).
Redeploy(creds) ==
  /\ credsOk' = creds
  /\ sessions' = EmptyMap
  /\ latestSessionId' = Null
  /\ orphans' = 0
  /\ tickets' = EmptyMap
  /\ jobs' = EmptyMap
  /\ scheduleTimer' = Null
  /\ timers' = {}
  /\ sched' = NoBody
  /\ UNCHANGED <<now, resolver, inflight, files, nextSession, nextTicket, nextTimer, handoff,
                 resp>>

\* ------------------------------------------------------------------ time
Tick ==
  /\ now < MaxTime
  /\ now' = now + 1
  /\ UNCHANGED resp
  /\ UNCHANGED <<credsOk, resolver, inflight, store, queue, timing, handoff>>

\* The response has gone out.
Respond ==
  /\ ~Idle
  /\ resp' = NoResp
  /\ UNCHANGED <<now, credsOk, resolver, inflight, store, queue, timing, handoff>>

ServerInit ==
  /\ now = 0
  /\ credsOk \in BOOLEAN
  /\ sessions = EmptyMap
  /\ latestSessionId = Null
  /\ files = {}
  /\ orphans = 0
  /\ nextSession = 1
  /\ tickets = EmptyMap
  /\ jobs = EmptyMap
  /\ nextTicket = 1
  /\ scheduleTimer = Null
  /\ timers = {}
  /\ nextTimer = 1
  /\ sched = NoBody
  /\ handoff = EmptyMap
  /\ calls = [c \in Calls |-> NoCall]
  /\ holds = EmptyMap
  /\ running = {}
  /\ resp = NoResp

\* No resolver has been called.
Init ==
  /\ ServerInit
  /\ selectors = <<>>
  /\ page = [s \in SelectorNames |-> "absent"]
  /\ out = NoOut
  /\ send = NoSend
  /\ otpPage = <<>>
  /\ otpOut = NoInput
  /\ verdict = NoVerdict

\* The resolvers, on every list and every page.
ResolverInit ==
  /\ ServerInit
  /\ selectors \in SelectorLists
  /\ page \in Pages
  /\ out = NoOut
  /\ send = NoSend
  /\ otpPage = <<>>
  /\ otpOut = NoInput
  /\ verdict = NoVerdict

ResolverNext ==
  \/ TryFill
  \/ TryClick
  \/ WaitForAnySelector

SpecResolver == ResolverInit /\ [][ResolverNext]_vars

\* Sessions that start-login registered at time 0 with their snapshots, some
\* of them out of the table again (a restart), and complete-login requests
\* for them arriving in any order.
InterleaveInit ==
  /\ now = 0
  /\ credsOk = TRUE
  /\ \E n \in 1..MaxSessions, kept \in SUBSET (1..MaxSessions) :
       /\ kept \subseteq 1..n
       /\ files = 1..n
       /\ nextSession = n + 1
       /\ sessions = [s \in kept |-> [browser |-> "open", expiry |-> SESSION_TTL]]
       /\ latestSessionId = IF n \in kept THEN n ELSE Null
       /\ holds = [s \in kept |-> LoginBrowser]
       /\ running = {<<s, LoginBrowser>> : s \in kept}
  /\ orphans = 0
  /\ tickets = EmptyMap
  /\ jobs = EmptyMap
  /\ nextTicket = 1
  /\ scheduleTimer = Null
  /\ timers = {}
  /\ nextTimer = 1
  /\ sched = NoBody
  /\ handoff = EmptyMap
  /\ calls = [c \in Calls |-> NoCall]
  /\ resp = NoResp
  /\ selectors = <<>>
  /\ page = [s \in SelectorNames |-> "absent"]
  /\ out = NoOut
  /\ send = NoSend
  /\ otpPage = <<>>
  /\ otpOut = NoInput
  /\ verdict = NoVerdict

InterleaveNext ==
  \/ \E c \in Calls, id \in SessionIds : CallBegin(c, id)
  \/ \E c \in Calls : CallRecovered(c)
  \/ \E c \in Calls, d \in DriveEnvs : CallEnd(c, d)
  \/ \E c \in Calls : CallDone(c)

SpecInterleave == InterleaveInit /\ [][InterleaveNext]_vars

\* The same calls, each request made once, beside the clock and the expiry
\* sweep.
SweepRaceNext ==
  \/ \E c \in Calls, id \in SessionIds : CallBegin(c, id)
  \/ \E c \in Calls : CallRecovered(c)
  \/ \E c \in Calls, d \in DriveEnvs : CallEnd(c, d)
  \/ \E t \in SUBSET Expired : CallSweep(t)
  \/ Tick

SpecSweepRace == InterleaveInit /\ [][SweepRaceNext]_vars

\* findOtpInputInAllFrames on every page of up to MaxFrames frames.
OtpInit ==
  /\ ServerInit
  /\ selectors = <<>>
  /\ page = [s \in SelectorNames |-> "absent"]
  /\ out = NoOut
  /\ send = NoSend
  /\ otpPage \in OtpPages
  /\ otpOut = NoInput
  /\ verdict = NoVerdict

OtpNext == \E race \in BOOLEAN : FindOtpInput(race)

SpecOtpInput == OtpInit /\ [][OtpNext]_vars

\* The send-my-code search on its own, over every page of up to MaxFrames
\* frames and every outcome of each await.
SpecSendCode == Init /\ [][SendNext]_vars

\* Requests and timers are taken up when no response is on its way out.
Next ==
  \/ Idle /\ \E e \in StartEnvs : StartLogin(e)
  \/ Idle /\ \E r \in CompleteRequests :
       \E l \in LookupEnvsFor(r[1], r[2]) : \E d \in DriveEnvsFor(r[1], r[2], l) :
         CompleteLogin(r[1], r[2], l, d)
  \/ Idle /\ \E t \in SUBSET Expired : Sweep(t)
  \/ Idle /\ \E t \in SUBSET DOMAIN sessions : DeleteAll(t)
  \/ Idle /\ \E r \in DeleteRequests : DeleteSession(r[1], r[2])
  \/ Idle /\ Restart
  \/ Idle /\ Tick
  \/ Respond

Spec == Init /\ [][Next]_vars

\* The ticket queue: the queued wrappers, their units of work and the polls.
QueueNext ==
  \/ Idle /\ ZapierStartLogin
  \/ Idle /\ \E r \in CompleteRequests : ZapierCompleteLogin(r[1], r[2])
  \/ Idle /\ \E t \in TicketIds, e \in StartEnvs : JobStartLogin(t, e)
  \/ Idle /\ \E t \in DOMAIN jobs :
       \E l \in LookupEnvsFor(jobs[t].session_id, jobs[t].otp) :
         \E d \in DriveEnvsFor(jobs[t].session_id, jobs[t].otp, l) :
         JobCompleteLogin(t, l, d)
  \/ Idle /\ \E t \in TicketIds : GetStatus(t)
  \/ Idle /\ \E t \in TicketIds : JobFetchFails(t)
  \/ Idle /\ \E t \in TicketIds, j \in BOOLEAN : JobSettle(t, j)
  \/ Respond

SpecQueue == Init /\ [][QueueNext]_vars

\* The unit of work of ticket t takes its next step: it runs up to its fetch
\* (the inner request is served, or the fetch rejects), or goes on after it.
JobRun(t) ==
  \/ \E e \in StartEnvs : JobStartLogin(t, e)
  \/ /\ t \in DOMAIN jobs
     /\ \E l \in LookupEnvsFor(jobs[t].session_id, jobs[t].otp) :
          \E d \in DriveEnvsFor(jobs[t].session_id, jobs[t].otp, l) :
            JobCompleteLogin(t, l, d)
  \/ JobFetchFails(t)

JobStep(t) ==
  \/ Idle /\ JobRun(t)
  \/ Idle /\ \E j \in BOOLEAN : JobSettle(t, j)

\* The ticket queue beside the clock and the expiry sweep.
QueueFairNext ==
  \/ Idle /\ ZapierStartLogin
  \/ Idle /\ \E r \in CompleteRequests : ZapierCompleteLogin(r[1], r[2])
  \/ \E t \in TicketIds : Idle /\ JobRun(t)
  \/ \E t \in TicketIds : Idle /\ \E j \in BOOLEAN : JobSettle(t, j)
  \/ Idle /\ \E t \in SUBSET Expired : Sweep(t)
  \/ Idle /\ Tick
  \/ Respond

\* Node's event loop runs every callback that is ready: the setImmediate
\* callback of a queued unit, and the continuation of a unit whose awaited
\* fetch has settled; a response on its way out does go out.
QueueFairness ==
  /\ \A t \in TicketIds : SF_vars(JobStep(t))
  /\ WF_vars(Respond)

SpecQueueFair == Init /\ [][QueueFairNext]_vars /\ QueueFairness

\* Queued start-logins beside the clock and the expiry sweep.
QueueSweepNext ==
  \/ Idle /\ ZapierStartLogin
  \/ Idle /\ \E t \in TicketIds, e \in StartEnvs : JobStartLogin(t, e)
  \/ Idle /\ \E t \in TicketIds : JobFetchFails(t)
  \/ Idle /\ \E t \in TicketIds, j \in BOOLEAN : JobSettle(t, j)
  \/ Idle /\ \E t \in SUBSET Expired : Sweep(t)
  \/ Idle /\ Tick
  \/ Respond

SpecQueueSweep == Init /\ [][QueueSweepNext]_vars

\* The scheduler: its two routes, its interval and direct start-login calls.
ScheduleNext ==
  \/ Idle /\ StartupScheduler
  \/ Idle /\ ScheduleStart
  \/ Idle /\ ScheduleStop
  \/ Idle /\ \E tm \in timers, e \in StartEnvs : SchedulerFire(tm, e)
  \/ Idle /\ \E j \in BOOLEAN : SchedulerSettle(j)
  \/ Idle /\ \E e \in StartEnvs : StartLogin(e)
  \/ Respond

SpecSchedule == Init /\ [][ScheduleNext]_vars

\* The writers of latestSessionId: direct start-login calls, the queued
\* start-login wrapper and the scheduler's callback.
PointerNext ==
  \/ Idle /\ \E e \in StartEnvs : StartLogin(e)
  \/ Idle /\ ZapierStartLogin
  \/ Idle /\ \E t \in TicketIds, e \in StartEnvs : JobStartLogin(t, e)
  \/ Idle /\ \E t \in TicketIds, j \in BOOLEAN : JobSettle(t, j)
  \/ Idle /\ ScheduleStart
  \/ Idle /\ \E tm \in timers, e \in StartEnvs : SchedulerFire(tm, e)
  \/ Idle /\ \E j \in BOOLEAN : SchedulerSettle(j)
  \/ Respond

SpecPointer == Init /\ [][PointerNext]_vars

\* GET /session/latest (lines 1663-1666): 404 'No session yet' while the
\* pointer is null, else the id it holds.
GetLatest ==
  /\ resp' = IF latestSessionId = Null
             THEN Fail("session/latest", 404, "No session yet", "", "")
             ELSE [NoResp EXCEPT !.op = "session/latest", !.code = 200,
                                 !.ok = TRUE, !.session_id = latestSessionId]
  /\ UNCHANGED <<now, credsOk, resolver, inflight, store, queue, timing, handoff>>

\* The pointer and what destroys sessions: both logins, the two DELETE
\* routes, the sweep, the clock and GET /session/latest.
LatestNext ==
  \/ Idle /\ \E e \in StartEnvs : StartLogin(e)
  \/ Idle /\ \E r \in CompleteRequests :
       \E l \in LookupEnvsFor(r[1], r[2]) : \E d \in DriveEnvsFor(r[1], r[2], l) :
         CompleteLogin(r[1], r[2], l, d)
  \/ Idle /\ \E t \in SUBSET Expired : Sweep(t)
  \/ Idle /\ \E t \in SUBSET DOMAIN sessions : DeleteAll(t)
  \/ Idle /\ \E r \in DeleteRequests : DeleteSession(r[1], r[2])
  \/ Idle /\ Tick
  \/ Idle /\ GetLatest
  \/ Respond

SpecLatest == Init /\ [][LatestNext]_vars

\* The handler gets as far as the success check (line 1464 passed).
ReachesCheck(session_id, otp, l, x) ==
  /\ otp
  /\ EffectiveId(session_id) # Null
  /\ Lookup(EffectiveId(session_id), l).error = ""
  /\ x.otpFound /\ x.fillOk /\ x.submitFound /\ x.idleOk

\* The outcomes of the steps before the success check and of browser.close().
DriveStepsFor(session_id, otp, l) ==
  {x \in DriveEnvsFor(session_id, otp, l) :
     x.urlMatch /\ x.marker /\ x.authCookie /\ x.bodyTextOk}

\* The page is looked at only by a handler that gets to the success check.
LandingsFor(session_id, otp, l, x) ==
  IF ReachesCheck(session_id, otp, l, x) THEN Landings
  ELSE {[f \in LandingFields |-> TRUE]}

\* POST /complete-login with the success check taken signal by signal: o is
\* what the check finds on the page.
CompleteLoginLanding(session_id, otp, l, x, o) ==
  /\ CompleteLoginHandler(session_id, otp, l, Landed(o, x))
  /\ verdict' = IF ReachesCheck(session_id, otp, l, x) THEN SuccessCheck(o)
                ELSE NoVerdict
  /\ UNCHANGED <<now, credsOk, queue, timing, handoff, inflight, selectors, page, out,
                 send, otpPage, otpOut>>

LandingNext ==
  \/ Idle /\ \E e \in StartEnvs : StartLogin(e)
  \/ Idle /\ \E r \in CompleteRequests :
       \E l \in LookupEnvsFor(r[1], r[2]) : \E x \in DriveStepsFor(r[1], r[2], l) :
         \E o \in LandingsFor(r[1], r[2], l, x) :
           CompleteLoginLanding(r[1], r[2], l, x, o)
  \/ Respond

SpecLanding == Init /\ [][LandingNext]_vars

\* The environment: start-login and complete-login in a process that comes
\* up with or without its credentials.
CredentialsNext ==
  \/ Idle /\ \E e \in StartEnvs : StartLogin(e)
  \/ Idle /\ \E r \in CompleteRequests :
       \E l \in LookupEnvsFor(r[1], r[2]) : \E d \in DriveEnvsFor(r[1], r[2], l) :
         CompleteLogin(r[1], r[2], l, d)
  \/ Idle /\ \E c \in BOOLEAN : Redeploy(c)
  \/ Respond

SpecCredentials == Init /\ [][CredentialsNext]_vars

\* ------------------------------------------------------- export hand-off
\* The hand-off of section 4.5: after a completion that succeeded a hand-off
\* is scheduled, not run inline.
Scheduled == [state |-> "scheduled", attempts |-> 0, last |-> ""]

\* POST /complete-login, with the hand-off scheduled once 'Login complete'
\* is on its way out.
CompleteLoginHandoff(session_id, otp, l, d) ==
  /\ CompleteLoginHandler(session_id, otp, l, d)
  /\ handoff' = IF resp'.ok THEN Put(handoff, resp'.session_id, Scheduled)
                ELSE handoff
  /\ UNCHANGED <<now, credsOk, resolver, inflight, queue, timing>>

\* The hand-off of session s runs when no response is on its way out, or
\* while the 'Login complete' that scheduled it still is.  Hand-offs read and
\* write nothing of each other, so one is run to its end before the next.
HandoffRuns(s) ==
  /\ \/ Idle
     \/ resp.op = "complete-login" /\ resp.ok /\ resp.session_id = s
  /\ \A t \in DOMAIN handoff \ {s} : handoff[t].state = "scheduled"

\* The cooldown is over: the snapshot is read and must deserialize to a
\* structured object; the liveness probe is made and, whatever comes of it,
\* the hand-off goes on.
HandoffBegin(s, valid) ==
  /\ s \in DOMAIN handoff
  /\ handoff[s].state = "scheduled"
  /\ handoff' = [handoff EXCEPT ![s].state = IF valid THEN "calling" ELSE "rejected"]
  /\ UNCHANGED <<now, credsOk, resolver, inflight, store, queue, timing, resp>>

\* What a call of the export endpoint can come to, and which of these are
\* followed by another attempt.
Outcomes == {"ok", "timeout", "refused", "dns", "5xx", "4xx"}

\* Every failure is followed by another attempt.
RetryableAlways == Outcomes \ {"ok"}

Retryable == {"timeout", "refused", "dns", "5xx"}

\* One call of the export endpoint.  Exhausting the attempts is logged.
HandoffAttempt(s, outcome) ==
  /\ s \in DOMAIN handoff
  /\ handoff[s].state \in {"calling", "retrying"}
  /\ handoff' = [handoff EXCEPT
       ![s] = [state |-> IF outcome = "ok" THEN "done"
                         ELSE IF outcome \in Retryable
                                 /\ handoff[s].attempts + 1 < MaxAttempts
                              THEN "retrying"
                         ELSE "failed",
               attempts |-> handoff[s].attempts + 1,
               last |-> outcome]]
  /\ UNCHANGED <<now, credsOk, resolver, inflight, store, queue, timing, resp>>

\* The task of the hand-off of session s returns: its outcome has been
\* logged, and nothing of it is left.
HandoffEnd(s) ==
  /\ s \in DOMAIN handoff
  /\ handoff[s].state \in {"done", "failed", "rejected"}
  /\ handoff' = Remove(handoff, {s})
  /\ UNCHANGED <<now, credsOk, resolver, inflight, store, queue, timing, resp>>

HandoffNext ==
  \/ Idle /\ \E e \in StartEnvs : StartLogin(e)
  \/ Idle /\ \E r \in CompleteRequests :
       \E l \in LookupEnvsFor(r[1], r[2]) : \E d \in DriveEnvsFor(r[1], r[2], l) :
         CompleteLoginHandoff(r[1], r[2], l, d)
  \/ \E s \in SessionIds, v \in BOOLEAN : HandoffRuns(s) /\ HandoffBegin(s, v)
  \/ \E s \in SessionIds, o \in Outcomes : HandoffRuns(s) /\ HandoffAttempt(s, o)
  \/ \E s \in SessionIds : HandoffRuns(s) /\ HandoffEnd(s)
  \/ Respond

SpecHandoff == Init /\ [][HandoffNext]_vars

\* ---------------------------------------------------------------- tickets
\* A ticket stays as it is or goes from 'queued' to 'done' or 'error'.
TicketStep(t) ==
  /\ t \in DOMAIN tickets'
  /\ \/ tickets'[t] = tickets[t]
     \/ /\ tickets[t].status = "queued"
        /\ tickets'[t].status \in {"done", "error"}

\* The unit of work of a ticket has settled when setImmediate's callback has
\* run to its end.
Settled(t) == t \notin DOMAIN jobs

\* A poll that found its ticket answers with what the ticket holds, and with
\* 'queued' exactly when the unit of work has not settled.
PollAnswer ==
  (resp.op = "status" /\ resp.code = 200) =>
     /\ resp.ticket_id \in DOMAIN tickets
     /\ resp.status = tickets[resp.ticket_id].status
     /\ resp.result = tickets[resp.ticket_id].result
     /\ resp.error = tickets[resp.ticket_id].error
     /\ (resp.status = "queued") = ~Settled(resp.ticket_id)
     /\ resp.status \in {"queued", "done", "error"}

\* C1: every ticket changes its status at most once, from 'queued' to 'done'
\* or 'error', and never afterwards; a poll returns 'queued' at every point
\* before the unit of work settles and the ticket's terminal status and
\* payload at every point after, so repeated polls after it return the same.
C1_TicketSettlesOnce ==
  [][(\A t \in DOMAIN tickets : TicketStep(t)) /\ PollAnswer']_vars

\* A poll after the unit of work settled returns the body the inner request
\* answered with.
C1_PolledDone ==
  /\ resp.op = "status"
  /\ resp.status = "done"
  /\ resp.result.ok
  /\ resp.result.message = "Awaiting OTP"

C3_AtMostOneLiveSession == Cardinality(LiveSessions) <= 1

\* C4: once start-login is past the credential check, the sweep it runs
\* before the login has left no session in the table, no snapshot file on
\* disk and no latest-session pointer: when the request is answered, only
\* the session it made itself can be there.
C4_StartLoginSweepsAll ==
  (resp.op = "start-login" /\ resp.stage # "credentials") =>
     /\ DOMAIN sessions \subseteq {resp.session_id}
     /\ files \subseteq {resp.session_id}
     /\ latestSessionId = resp.session_id

\* C5: DELETE /sessions/all that finds N sessions, none of whose browsers
\* throws on close, answers {deleted: N, errors: 0} and leaves the table
\* empty, their browsers closed and no snapshot file on disk, whether or not
\* a file had a session in the table.
C5_DeleteAllEmpties ==
  (resp.op = "delete-all" /\ resp.errors = 0) =>
     /\ resp.code = 200 /\ resp.ok
     /\ resp.deleted = resp.found
     /\ sessions = EmptyMap
     /\ files = {}
     /\ resp.leftOpen = 0

\* DELETE /sessions/all has answered {deleted: 2, errors: 0}.
C5_DeletedTwo ==
  /\ resp.op = "delete-all"
  /\ resp.errors = 0
  /\ resp.found >= 2
  /\ resp.deleted = resp.found

\* C6: whenever complete-login finds no success signal after the code was
\* submitted, it answers 'Login incomplete' and by then the browser of the
\* session is closed, the session is out of the table and its snapshot file
\* is deleted.
C6_LoginIncompleteCleansUp ==
  (resp.op = "complete-login" /\ resp.stage = "no-signal") =>
     /\ ~resp.ok /\ resp.error = "Login incomplete"
     /\ resp.browser = "closed"
     /\ resp.session_id \notin DOMAIN sessions
     /\ resp.session_id \notin files

\* ----------------------------------------------------------- start-login
\* What start-login leaves behind with its 'Awaiting OTP' answer: an entry
\* with an open browser and expiry = now + TTL, the snapshot file, and the
\* latest-session pointer on the new session.
AwaitingOtp ==
  /\ resp.ok /\ resp.code = 200 /\ resp.message = "Awaiting OTP"
  /\ resp.session_id \in DOMAIN sessions
  /\ sessions[resp.session_id].browser = "open"
  /\ sessions[resp.session_id].expiry = now + SESSION_TTL
  /\ resp.session_id \in files
  /\ latestSessionId = resp.session_id

FromSnapshot ==
  /\ resp.op = "complete-login"
  /\ resp.lookup \in {"recovered", "recovered-any", "not-found"}
  /\ resp.hadFile

\* The session was rebuilt under the id that was asked for, registered with
\* a fresh expiry, and the handler went on to code entry.
RebuiltSameId ==
  /\ resp.lookup \in {"recovered", "recovered-any"}
  /\ resp.session_id = resp.requested
  /\ resp.error # "Session not found"
  /\ resp.stage \in {"code-entry", "submitted", "no-signal", "signal"}
  /\ resp.session_id \in DOMAIN sessions =>
        sessions[resp.session_id] = [browser |-> resp.browser,
                                     expiry |-> now + SESSION_TTL]
  /\ resp.stage = "code-entry" => resp.session_id \in LiveSessions

C9_FailureClosesBrowsers ==
  (resp.op \in {"start-login", "complete-login"} /\ resp.code # 0 /\ ~resp.ok)
     => resp.leftOpen = 0

\* ------------------------------------------------------------- hand-off
\* One step of the hand-off of session s.
HandoffStep(s) ==
  LET h == handoff[s]
      g == handoff'[s]
  IN
  /\ (s \notin DOMAIN handoff' \/ g # h) => resp' = resp
  /\ \/ s \notin DOMAIN handoff' /\ h.state \in {"done", "failed", "rejected"}
     \/ /\ s \in DOMAIN handoff'
        /\ g.attempts \in {h.attempts, h.attempts + 1}
        /\ g.attempts <= MaxAttempts
        /\ (g.attempts > h.attempts /\ h.attempts > 0) => h.last \in Retryable
        /\ (h.last = "4xx" \/ h.attempts = MaxAttempts) => g = h

\* C10: the export hand-off makes at most 3 attempts; an attempt after the
\* first is made only after a timeout, a refused connection, a failed name
\* resolution or a 5xx response, none after a 4xx response and none after
\* the third, after which the task only ends; no step of the hand-off
\* touches the complete-login response.
C10_HandoffBounded ==
  [][\A s \in DOMAIN handoff : HandoffStep(s)]_vars

\* The third attempt of a hand-off has failed while 'Login complete' is
\* still on its way out.
C10_GaveUp ==
  \E s \in DOMAIN handoff :
    /\ handoff[s].attempts = MaxAttempts
    /\ handoff[s].state = "failed"
    /\ handoff[s].last \in Retryable
    /\ resp.op = "complete-login" /\ resp.ok /\ resp.session_id = s

\* C11: complete-login naming a session id that is neither in the table nor
\* backed by a snapshot file of that id answers 'Session not found', and it
\* opens, registers or destroys no session of another id, whatever other
\* snapshot files the directory holds.
C11_UnknownIdNotFound ==
  (/\ resp.op = "complete-login"
   /\ resp.lookup \in {"recovered", "recovered-any", "not-found"}
   /\ ~resp.hadFile)
     => /\ resp.error = "Session not found"
        /\ resp.code = 400
        /\ resp.session_id = resp.requested
        /\ resp.lookup = "not-found"

\* C12: a complete-login request that carries an otp and no session_id
\* operates on the session the latest-session pointer names; with a null
\* pointer it answers 400 'No active session', launches no browser and
\* leaves the session table as it is.
C12_DefaultsToLatest ==
  [][\A l \in LookupEnvsFor(Null, TRUE) : \A d \in DriveEnvsFor(Null, TRUE, l) :
       CompleteLogin(Null, TRUE, l, d) =>
         IF latestSessionId = Null
         THEN /\ resp'.code = 400
              /\ resp'.error = "No active session. Please start login first."
              /\ resp'.leftOpen = 0
              /\ sessions' = sessions
         ELSE /\ resp'.requested = latestSessionId
              /\ resp'.session_id = latestSessionId]_vars

\* ------------------------------------------------- the latest-session pointer
\* No start-login is in flight: no response is on its way out, no queued
\* start-login wrapper and no scheduler callback has still to run or to go on
\* after its inner call.
NoStartLoginInFlight ==
  /\ Idle
  /\ sched = NoBody
  /\ \A t \in DOMAIN jobs : jobs[t].kind # "start-login"

\* C13: whenever no start-login is in flight, the latest-session pointer
\* holds the id of the session created last, however direct start-login
\* calls, queued start-login jobs and scheduler ticks interleave.
C13_PointerIsNewest ==
  (NoStartLoginInFlight /\ nextSession > 1) => latestSessionId = nextSession - 1

\* C14: an operation that goes through against a session of the table
\* refreshes its expiry: once complete-login has found the session in the
\* table and gone on with it, the entry, while it is kept, expires at
\* now + TTL.
C14_FoundSessionRefreshed ==
  (/\ resp.op = "complete-login"
   /\ resp.lookup = "in-memory"
   /\ resp.session_id \in DOMAIN sessions)
     => sessions[resp.session_id].expiry = now + SESSION_TTL

\* C15: DELETE /sessions/:session_id for a session of the table removes the
\* table entry and the snapshot file, also when closing the browser throws,
\* and answers {ok: true, message: 'Session deleted', session_id}.
C15_DeleteIgnoresCloseError ==
  (resp.op = "delete" /\ resp.code # 404)
     => /\ resp.ok
        /\ resp.code = 200
        /\ resp.message = "Session deleted"
        /\ resp.session_id \notin DOMAIN sessions
        /\ resp.session_id \notin files

\* C16: when complete-login fully succeeds, a snapshot of the session's
\* authentication state after the code is on disk under the session id, and
\* it is still there once 'Login complete' has been answered.
C16_SnapshotSurvivesSuccess ==
  (resp.op = "complete-login" /\ resp.ok /\ resp.message = "Login complete")
     => resp.session_id \in files

\* ------------------------------------------------------- snapshot eviction
\* The snapshot files that no entry of the table stands for and that were
\* written before a session that is past its expiry was registered: ids are
\* handed out in the order of registration, an entry expires no earlier than
\* one TTL after its registration, so such a file is older than the TTL.
StaleOrphanFiles ==
  {f \in files \ DOMAIN sessions : \E g \in Expired : f < g}

\* C17: the periodic cleanup deletes every snapshot file older than the TTL,
\* also when no session of that id is in the table any more: no run of the
\* cleanup leaves such a file on disk.
C17_SweepEvictsOldFiles ==
  [][(\E t \in SUBSET Expired : Sweep(t))
       => \A f \in StaleOrphanFiles : f \notin files']_vars

\* --------------------------------------------------------- element resolver
\* What the resolver called last does after its wait.
KindOf(fn) ==
  IF fn = "tryFill" THEN "fill" ELSE IF fn = "tryClick" THEN "click" ELSE "wait"

\* The positions of the list whose selector resolves on the page and whose
\* call goes through.
Succeeding ==
  {i \in 1..Len(selectors) :
     Resolves(page, selectors[i]) /\ ActionOk(KindOf(out.fn), page, selectors[i])}

FirstSucceeding == CHOOSE i \in Succeeding : \A j \in Succeeding : i <= j

IssuedTickets == 1..(nextTicket - 1)

\* C19: tickets are never removed: every id queueJob has returned is in the
\* table, GET /status/:ticket_id never answers 404 'Unknown ticket' for it,
\* and it answers 404 for every id that was never issued.
C19_IssuedTicketsKnown ==
  /\ DOMAIN tickets = IssuedTickets
  /\ resp.op = "status" =>
       /\ resp.ticket_id \in IssuedTickets => resp.code = 200 /\ resp.ok
       /\ resp.ticket_id \notin IssuedTickets =>
            resp.code = 404 /\ resp.error = "Unknown ticket"

\* Every ticket has been issued and settled, no unit of work is left, and
\* the poll of the first ticket is still answered with its state.
C19_PolledAfterAllSettled ==
  /\ resp.op = "status"
  /\ resp.ticket_id = 1
  /\ resp.code = 200
  /\ resp.status \in {"done", "error"}
  /\ jobs = EmptyMap
  /\ nextTicket > MaxTickets

\* ---------------------------------------------------------------- scheduler
\* The scheduler's callback has just issued a start-login.
SchedulerIssues == sched = NoBody /\ sched' # NoBody

\* C20: whatever POST /schedule/start and POST /schedule/stop have been
\* called, at most one periodic start-login timer is active, the one
\* scheduleTimer names: a start leaves exactly one, a stop leaves none, and
\* a start-login is issued by the scheduler only while a timer is active,
\* that is not between a stop and the next start.
C20_AtMostOneTimer ==
  /\ [](/\ timers = IF scheduleTimer = Null THEN {} ELSE {scheduleTimer}
        /\ resp.op = "schedule-start" => Cardinality(timers) = 1
        /\ resp.op = "schedule-stop" => timers = {})
  /\ [][SchedulerIssues => scheduleTimer # Null /\ timers = {scheduleTimer}]_vars

\* A second start has replaced the running timer by a new one, the only one
\* active.
C20_Restarted ==
  /\ resp.op = "schedule-start"
  /\ scheduleTimer = 2
  /\ timers = {2}

\* ------------------------------------------------------------ start-login
\* C21: start-login in a process without PWC_EMAIL or PWC_PASSWORD answers
\* 400 {ok: false, error: 'Missing credentials'}; it launches no browser and
\* leaves the session table, the snapshot directory and the latest-session
\* pointer as they are; the response goes out and the next request is taken.
C21_MissingCredentials ==
  /\ [][(Idle /\ resp'.op = "start-login" /\ ~credsOk)
          => /\ resp'.code = 400
             /\ ~resp'.ok
             /\ resp'.error = "Missing credentials"
             /\ resp'.browser = "" /\ resp'.leftOpen = 0
             /\ UNCHANGED <<sessions, files, latestSessionId, orphans>>]_vars
  /\ []((resp.op = "start-login" /\ resp.code = 400) => ENABLED Respond)
  /\ []((Idle /\ ~credsOk) => ENABLED (\E e \in StartEnvs : StartLogin(e)))

\* 'Missing credentials' has been answered while a session, rebuilt from its
\* snapshot, is in the table.
C21_RefusedBesideSession ==
  /\ resp.op = "start-login"
  /\ resp.error = "Missing credentials"
  /\ LiveSessions # {}
  /\ files # {}

\* The field of the credential-entry step (lines 976-1016) that does not
\* resolve in e, "" if all three do.  The optional Next/Continue click
\* between email and password (988-993) is not one of them.
FieldLost(e) ==
  IF ~e.emailFilled THEN "login:email"
  ELSE IF ~e.passFilled THEN "login:password"
  ELSE IF ~e.submitted THEN "login:submit"
  ELSE ""

\* C22: a start-login whose email field, password field or submit button
\* does not resolve answers 500 with step 'login:email', 'login:password' or
\* 'login:submit'; its browser is closed and the table, the snapshot
\* directory and the latest-session pointer are left alone.  A failing
\* Next/Continue click alone does not fail the login.
C22_FieldFailureTerminal ==
  [][\A e \in StartEnvs :
       (Idle /\ credsOk /\ e.launchOk /\ e.gotoOk /\ StartLogin(e))
         => /\ FieldLost(e) # ""
              => /\ resp'.code = 500 /\ ~resp'.ok
                 /\ resp'.step = FieldLost(e)
                 /\ resp'.browser = "closed" /\ resp'.leftOpen = 0
                 /\ UNCHANGED <<sessions, files, latestSessionId, orphans>>
            /\ (~e.advanceClicked /\ FieldLost(e) = "")
              => resp'.stage \notin {"email", "password", "submit"}]_vars

\* The login page goes from the submitted credentials straight to the code
\* prompt: no channel-choice screen, everything else in e goes through.
SkipsChannelChoice(e) ==
  /\ ~e.choiceShown
  /\ \A f \in {"launchOk", "gotoOk", "emailFilled", "passFilled", "submitted",
               "codeInputShown", "otpFound", "storageOk", "writeOk"} : e[f]

\* C23: a start-login whose page skips the channel-choice screen and shows
\* the code prompt still answers 200 'Awaiting OTP' and registers the
\* session.
C23_SkippedChoiceAwaitsOtp ==
  [][\A e \in StartEnvs :
       (Idle /\ credsOk /\ SkipsChannelChoice(e) /\ nextSession <= MaxSessions
          /\ StartLogin(e))
         => /\ resp'.code = 200 /\ resp'.ok
            /\ resp'.message = "Awaiting OTP"
            /\ resp'.session_id \in DOMAIN sessions']_vars

CodeFieldMissing(e) ==
  /\ e.launchOk /\ e.gotoOk /\ FieldLost(e) = ""
  /\ MfaSelected(e)
  /\ ~e.otpFound

\* C25: a start-login that does not find the code field answers 'Still on MFA
\* page - Send my code not clicked' (step 'mfa:send-code') exactly when the
\* page text still shows the channel-choice prompt, and 'OTP field not found'
\* (step 'otp:input') otherwise; either way its browser is closed and no
\* session is registered.
C25_CodeFieldMissingReason ==
  [][\A e \in StartEnvs :
       (Idle /\ credsOk /\ CodeFieldMissing(e) /\ StartLogin(e))
         => /\ resp'.code = 500 /\ ~resp'.ok
            /\ IF e.stillOnMfa
               THEN /\ resp'.error = "Still on MFA page - Send my code not clicked"
                    /\ resp'.step = "mfa:send-code"
               ELSE /\ resp'.error = "OTP field not found"
                    /\ resp'.step = "otp:input"
            /\ resp'.browser = "closed" /\ resp'.leftOpen = 0
            /\ UNCHANGED <<sessions, files, latestSessionId, orphans>>]_vars

\* ------------------------------------------------- findOtpInputInAllFrames
\* C26: findOtpInputInAllFrames returns an input only when a submit control
\* is visible in the frame of the input or somewhere on the page.
C26_InputOnlyWithSubmit ==
  otpOut.found => \E k \in 1..Len(otpPage) : otpPage[k].submit

\* ------------------------------------------------------------ complete-login
\* C27: when complete-login answers 'Session expired' for a session of the
\* table, the session is gone: its entry is removed, its browser is closed
\* and its snapshot file is deleted.
C27_ExpiredIsDestroyed ==
  (resp.op = "complete-login" /\ resp.error = "Session expired")
     => /\ resp.code = 400
        /\ resp.session_id \notin DOMAIN sessions
        /\ resp.browser = "closed" /\ resp.leftOpen = 0
        /\ resp.session_id \notin files

\* C28: once complete-login has answered {ok: true, message: 'Login complete'}
\* for a session, that session is gone: the browser the handler drove is
\* closed and the id is not in the table.
C28_CompletedIsDestroyed ==
  (resp.op = "complete-login" /\ resp.ok /\ resp.message = "Login complete")
     => /\ resp.code = 200
        /\ resp.browser = "closed"
        /\ resp.session_id \notin DOMAIN sessions

\* 'Login complete' for a session that was in the table, while the other
\* session stays registered.
C28_CompletedBesideAnother ==
  /\ resp.op = "complete-login"
  /\ resp.message = "Login complete"
  /\ resp.lookup = "in-memory"
  /\ resp.found = 2
  /\ Cardinality(DOMAIN sessions) = 1

\* C29: no two complete-login invocations are at work on the same session at
\* the same time, and none has the browser it is using closed, or replaced in
\* the table, by another.
C29_OneCallPerSession ==
  /\ \A c1 \in Calls, c2 \in Calls :
       (c1 # c2 /\ InProgress(c1) /\ InProgress(c2)) => calls[c1].id # calls[c2].id
  /\ \A c \in Calls : ~calls[c].lost /\ ~calls[c].replaced

\* ---------------------------------------------------------------- tickets
TicketSettled(t) == t \in DOMAIN tickets /\ tickets[t].status \in {"done", "error"}
TicketQueued(t) == t \in DOMAIN tickets /\ tickets[t].status = "queued"

\* C30: every ticket leaves 'queued' for 'done' or 'error' once its unit of
\* work settles; while the unit of one ticket is pending, the unit of every
\* other ticket can take its next step, and so can the expiry sweep.
C30_TicketsSettle ==
  /\ \A t \in TicketIds : TicketQueued(t) ~> TicketSettled(t)
  /\ [](\A t \in TicketIds : TicketQueued(t) => t \in DOMAIN jobs)
  /\ [](Idle => \A t \in DOMAIN jobs : ENABLED JobStep(t))
  /\ []((Idle /\ Expired # {}) => ENABLED (\E x \in SUBSET Expired : Sweep(x)))

\* The second ticket is settled while the unit of the first has not run, and
\* a session is past its expiry.
C30_SettledPastSlowUnit ==
  /\ TicketQueued(1)
  /\ TicketSettled(2)
  /\ Expired # {}

\* ---------------------------------------------- DELETE /sessions/:session_id
\* C31: DELETE /sessions/:session_id for an id the table does not hold answers
\* 404 'Session not found' and leaves the table, every snapshot file (that of
\* the id included) and the latest-session pointer as they are.
C31_UnknownDeleteChangesNothing ==
  [][\A r \in DeleteRequests :
       (Idle /\ r[1] \notin DOMAIN sessions /\ DeleteSession(r[1], r[2]))
         => /\ resp'.code = 404 /\ ~resp'.ok
            /\ resp'.error = "Session not found"
            /\ UNCHANGED <<sessions, files, latestSessionId, orphans>>]_vars

\* 404 for an id whose snapshot file is on disk, beside a registered session.
C31_RefusedWithFileOnDisk ==
  /\ resp.op = "delete" /\ resp.code = 404
  /\ resp.session_id \in files
  /\ DOMAIN sessions # {}

\* ------------------------------------------------------------------ expiry
\* A complete-login naming s would rebuild session s from its snapshot file
\* and go on to code entry.
Revivable(s) ==
  /\ s \notin DOMAIN sessions
  /\ \E l \in LookupEnvs(s) :
       LET L == Lookup(s, l) IN L.error = "" /\ L.id = s /\ L.stage = "recovered"

ExpiredAnswer(s) ==
  /\ Idle
  /\ resp'.op = "complete-login"
  /\ resp'.error = "Session expired"
  /\ resp'.session_id = s

SweptAsExpired(s) ==
  /\ s \in Expired
  /\ \E t \in SUBSET Expired : Sweep(t)

\* C32: once complete-login has answered 'Session expired' for a session, or
\* the sweep has removed it as expired, no complete-login naming it is
\* accepted any more: it cannot be rebuilt from a snapshot file.
C32_ExpiredStaysExpired ==
  [][\A s \in SessionIds :
       (ExpiredAnswer(s) \/ SweptAsExpired(s)) => ~(Revivable(s))']_vars

\* C33: the expiry sweep never closes the browser a complete-login that has
\* passed its expiry check is driving.
C33_SweepSparesDrivenBrowser ==
  [][\A t \in SUBSET Expired :
       CallSweep(t)
         => \A c \in Calls :
              calls[c].pc = "driving"
                => /\ calls'[c].lost = calls[c].lost
                   /\ <<calls[c].id, calls[c].browser>> \in running
                        => <<calls[c].id, calls[c].browser>> \in running']_vars

\* ------------------------------------------------------- table and browsers
\* C34: between requests every entry of the table holds an open browser and
\* every open browser is held by an entry.
C34_TableMatchesBrowsers ==
  /\ \A s \in DOMAIN sessions : sessions[s].browser = "open"
  /\ orphans = 0

\* ------------------------------------------------------ DELETE /sessions/all
\* C35: DELETE /sessions/all over N sessions answers deleted + errors = N,
\* errors counting the sessions whose browser.close() threw; these stay in
\* the table, the others leave it, and no session of the table has a
\* snapshot file afterwards.
C35_DeleteAllCounts ==
  [][\A t \in SUBSET DOMAIN sessions :
       (Idle /\ DeleteAll(t))
         => /\ resp'.deleted + resp'.errors = Cardinality(DOMAIN sessions)
            /\ resp'.errors = Cardinality(t)
            /\ DOMAIN sessions' = t
            /\ \A s \in t : sessions'[s] = sessions[s]
            /\ files' \cap DOMAIN sessions' = {}]_vars

\* One of two sessions was deleted and one counted as an error; the one left
\* had its snapshot on disk.
C35_OneDeletedOneError ==
  /\ resp.op = "delete-all"
  /\ resp.found = 2 /\ resp.deleted = 1 /\ resp.errors = 1
  /\ Cardinality(DOMAIN sessions) = 1
  /\ files = {}

\* -------------------------------------------------- cleanupExpiredSessions
\* C36: the sweep leaves every session that is not past its expiry as it is
\* (entry, browser, snapshot file), and never touches the latest-session
\* pointer or the ticket table.
C36_SweepSparesLiveSessions ==
  [][\A t \in SUBSET Expired :
       Sweep(t)
         => /\ \A s \in DOMAIN sessions \ Expired :
                 /\ s \in DOMAIN sessions'
                 /\ sessions'[s] = sessions[s]
                 /\ (s \in files) = (s \in files')
            /\ DOMAIN sessions' \subseteq DOMAIN sessions
            /\ UNCHANGED <<latestSessionId, tickets>>]_vars

\* Two queued start-logins registered sessions 1 and 2; the sweep has taken
\* session 1 and its snapshot, session 2 is in the table with its snapshot.
C36_SweptBesideLiveSession ==
  /\ DOMAIN tickets = {1, 2}
  /\ \A t \in DOMAIN tickets :
       tickets[t].status = "done" /\ tickets[t].result.message = "Awaiting OTP"
  /\ DOMAIN sessions = {2}
  /\ files = {2}
  /\ sessions[2].browser = "open"

\* ---------------------------------------------------------------- tickets
\* The unit of work of ticket t throws: its fetch rejects or r.json() does.
UnitThrows(t) == JobFetchFails(t) \/ JobSettle(t, FALSE)

\* The unit of work of ticket t returns the body of the inner response.
UnitReturns(t) == JobSettle(t, TRUE)

C38_FailedStartLeavesStore ==
  [][(resp'.op = "start-login" /\ resp' # resp /\ ~resp'.ok)
       => UNCHANGED <<sessions, files, latestSessionId>>]_vars

\* A start-login has just failed at the save of its snapshot while another
\* session is registered, has its file and is the latest one.
C38_FailedSaveBesideSession ==
  /\ resp.op = "start-login"
  /\ ~resp.ok
  /\ resp.error = "Failed to save session"
  /\ resp.found >= 1
  /\ latestSessionId \in DOMAIN sessions
  /\ latestSessionId \in files

\* ------------------------------------------------- the latest-session pointer
\* The session s is known to the service: it is in the table or has a
\* snapshot file.
Known(s) == s \in DOMAIN sessions \/ s \in files

\* C39: the latest-session pointer never dangles: while it is not null the
\* session it names is in the table or has a snapshot file, and the id
\* GET /session/latest answers with is the id of such a session.
C39_LatestNeverDangles ==
  /\ latestSessionId # Null => Known(latestSessionId)
  /\ (resp.op = "session/latest" /\ resp.ok) => Known(resp.session_id)

\* ------------------------------------------------------ the success check
\* The indicators that stand for a signal other than the URL and the page
\* body.
OtherSignals ==
  {"Found table element", "Found dashboard element",
   "Found Background Verification text", "Auth cookies present",
   "Page content suggests logged-in state"}

\* C40: complete-login answers {ok: true} only if the success check found a
\* signal other than the URL: a content marker, an auth cookie, or body text
\* of a logged-in page on the target domain; a matching URL, the page body,
\* or both together, never make a success.
C40_SuccessNeedsOtherSignal ==
  /\ (resp.op = "complete-login" /\ resp.ok)
       => /\ verdict.checked
          /\ verdict.loginSuccess
          /\ verdict.indicators \cap OtherSignals # {}
  /\ (verdict.checked /\ verdict.indicators \cap OtherSignals = {})
       => ~verdict.loginSuccess

\* A complete-login has just been refused as 'Login incomplete' on a page
\* whose URL matches and whose body is found, with no other signal.
C40_UrlAndBodyRefused ==
  /\ resp.op = "complete-login"
  /\ resp.error = "Login incomplete"
  /\ verdict.indicators = {"URL matches PwC domain", "Found page body"}
====
